---- MODULE Spec2Model ----
(***************************************************************************)
(* Tabular Store Adapter of universal_mcp_server (database_connector.py):  *)
(* one SQLite file holding the user tables, the _mcp_metadata table and    *)
(* the _mcp_query_history table, driven through execute_query,             *)
(* list_tables, describe_table, create_table_from_data and                 *)
(* get_query_history.  Next to it the file browser (file_browser.py) and   *)
(* the document reader (document_reader.py) over a tree of files, and the  *)
(* tools of main.py that wrap the three adapters.                          *)
(*                                                                         *)
(* Text (table names, column keys, the leading keyword of a statement) is  *)
(* a sequence of one-character strings, so that strip/upper/split,         *)
(* isalnum, the name sanitizer and SQL LIKE are computed character by      *)
(* character.  execution_time (wall clock) is left out of results and      *)
(* history rows; executed_at is the second in which the row was written.   *)
(* conns is the sequence of connection events (connect, rollback, close)   *)
(* of the last call.                                                       *)
(***************************************************************************)
EXTENDS Integers, Sequences, FiniteSets, TLC

VARIABLES tables, meta, histTable, history, nextId, clock, files, conns, call, result

vars == <<tables, meta, histTable, history, nextId, clock, files, conns, call, result>>

-----------------------------------------------------------------------------
(* Bounds of the model *)

\* INSERT is not issued on a table that already holds MaxRows rows
MaxRows == 2
\* history rows written over a run (values of the AUTOINCREMENT id)
MaxLogged == 2
\* seconds that pass over a run
MaxClock == 1
\* largest limit passed to get_query_history
MaxLimit == 2

(* Program constants *)

\* describe_table: SELECT * FROM t LIMIT 5
SampleLimit == 5
\* create_table_from_data: data[:10] is the sample for type inference
InferSample == 10

-----------------------------------------------------------------------------
(* Characters and text *)

LowerLetters ==
    {"a","b","c","d","e","f","g","h","i","j","k","l","m",
     "n","o","p","q","r","s","t","u","v","w","x","y","z"}

UpperLetters ==
    {"A","B","C","D","E","F","G","H","I","J","K","L","M",
     "N","O","P","Q","R","S","T","U","V","W","X","Y","Z"}

Letters == LowerLetters \cup UpperLetters

Digits == {"0","1","2","3","4","5","6","7","8","9"}

\* str.upper() on one character
UpperChar(c) ==
    CASE c = "a" -> "A" [] c = "b" -> "B" [] c = "c" -> "C" [] c = "d" -> "D"
      [] c = "e" -> "E" [] c = "f" -> "F" [] c = "g" -> "G" [] c = "h" -> "H"
      [] c = "i" -> "I" [] c = "j" -> "J" [] c = "k" -> "K" [] c = "l" -> "L"
      [] c = "m" -> "M" [] c = "n" -> "N" [] c = "o" -> "O" [] c = "p" -> "P"
      [] c = "q" -> "Q" [] c = "r" -> "R" [] c = "s" -> "S" [] c = "t" -> "T"
      [] c = "u" -> "U" [] c = "v" -> "V" [] c = "w" -> "W" [] c = "x" -> "X"
      [] c = "y" -> "Y" [] c = "z" -> "Z" [] OTHER -> c

\* str.upper()
Upper(s) == [i \in 1..Len(s) |-> UpperChar(s[i])]

\* c.isalnum() / c.isalpha() on one character
IsAlnumChar(c) == c \in Letters \cup Digits

IsAlphaChar(c) == c \in Letters

\* str.isalnum(): false on the empty string
IsAlnum(s) == Len(s) > 0 /\ \A i \in 1..Len(s) : IsAlnumChar(s[i])

\* str.replace('_', '')
StripUnderscores(s) == SelectSeq(s, LAMBDA c : c # "_")

\* str.startswith
StartsWith(s, prefix) ==
    /\ Len(s) >= Len(prefix)
    /\ \A i \in 1..Len(prefix) : s[i] = prefix[i]

\* SQL LIKE: '_' matches any one character, '%' any run of characters,
\* letters compare case-insensitively
RECURSIVE Like(_, _)
Like(s, pat) ==
    IF pat = <<>> THEN s = <<>>
    ELSE IF Head(pat) = "%"
         THEN Like(s, Tail(pat)) \/ (s # <<>> /\ Like(Tail(s), pat))
         ELSE /\ s # <<>>
              /\ (Head(pat) = "_" \/ UpperChar(Head(pat)) = UpperChar(Head(s)))
              /\ Like(Tail(s), Tail(pat))

-----------------------------------------------------------------------------
(* Names *)

MetaName == <<"_","m","c","p","_","m","e","t","a","d","a","t","a">>

HistoryName ==
    <<"_","m","c","p","_","q","u","e","r","y","_","h","i","s","t","o","r","y">>

\* created by SQLite for the AUTOINCREMENT id of the history table
SequenceName == <<"s","q","l","i","t","e","_","s","e","q","u","e","n","c","e">>

SqlitePrefix == <<"s","q","l","i","t","e","_">>

McpPrefix == <<"_","m","c","p","_">>

SqliteLike == <<"s","q","l","i","t","e","_","%">>

McpLike == <<"_","m","c","p","_","%">>

\* the table names the callers of the model use
NameT == <<"t">>

NameDash == <<"t","-">>

NameDigit == <<"1","t">>

NameUnderscore == <<"_">>

NameXmcpy == <<"x","m","c","p","y">>

NameMissing == <<"n","o","n","e">>

TableNames == {NameT, NameDash, NameDigit, NameUnderscore, NameXmcpy}

\* SQLite tokenizer: a name written without quotes is one identifier token
BareIdentifier(name) ==
    /\ Len(name) > 0
    /\ name[1] \in Letters \cup {"_"}
    /\ \A i \in 1..Len(name) : name[i] \in Letters \cup Digits \cup {"_"}

-----------------------------------------------------------------------------
(* Values, rows and column inference *)

NoneV == [ty |-> "none", v |-> 0]

IntV(n) == [ty |-> "int", v |-> n]

\* True and False
BoolV(b) == [ty |-> "bool", v |-> IF b THEN 1 ELSE 0]

\* a float, counted in halves: RealV(3) is 1.5 and RealV(2) is 1.0
RealV(halves) == [ty |-> "float", v |-> halves]

\* a str; the strings of the model do not read as numbers
StrV(s) == [ty |-> "str", v |-> s]

\* a list: a value sqlite3 cannot bind
ListV == [ty |-> "list", v |-> 0]

KeyA == <<"a">>

KeyB == <<"b">>

\* "a-b" and "a_b" share the clean name a_b
KeyDash == <<"a", "-", "b">>

KeyUnder == <<"a", "_", "b">>

\* "1": its clean name is col_1
KeyDigit == <<"1">>

KeyEmpty == <<>>

\* isinstance(v, bool) / isinstance(v, int) / isinstance(v, (int, float)):
\* a Python bool is an int
IsBool(v) == v.ty = "bool"

IsInt(v) == v.ty \in {"bool", "int"}

IsNumber(v) == v.ty \in {"bool", "int", "float"}

\* the values sqlite3 can bind as a parameter
Bindable(v) == v.ty \in {"none", "bool", "int", "float", "str"}

\* row.get(key): None when the key is absent
RowGet(row, key) == IF key \in DOMAIN row THEN row[key] ELSE NoneV

\* data[:n]
Take(s, n) == SubSeq(s, 1, IF Len(s) < n THEN Len(s) ELSE n)

\* ''.join(c if c.isalnum() or c == '_' else '_' for c in name)
CleanChars(key) ==
    [i \in 1..Len(key) |-> IF IsAlnumChar(key[i]) \/ key[i] = "_" THEN key[i] ELSE "_"]

\* the 'col_' prefix for a name that does not start with a letter; the
\* caller has checked that the key is not empty (clean_name[0])
CleanName(key) ==
    IF IsAlphaChar(CleanChars(key)[1]) THEN CleanChars(key)
    ELSE <<"c","o","l","_">> \o CleanChars(key)

AllColumns(sample) == UNION {DOMAIN sample[i] : i \in 1..Len(sample)}

\* the non-null sampled values of one key
SampleValues(sample, key) ==
    {RowGet(sample[i], key) : i \in {j \in 1..Len(sample) : RowGet(sample[j], key) # NoneV}}

\* the type tests with the integer test ahead of the boolean test
InferTypeIntFirst(values) ==
    IF values = {} THEN "TEXT"
    ELSE IF \A v \in values : IsInt(v) THEN "INTEGER"
    ELSE IF \A v \in values : IsBool(v) THEN "BOOLEAN"
    ELSE IF \A v \in values : IsNumber(v) THEN "REAL"
    ELSE "TEXT"

InferType(values) ==
    IF values = {} THEN "TEXT"
    ELSE IF \A v \in values : IsBool(v) THEN "BOOLEAN"
    ELSE IF \A v \in values : IsInt(v) THEN "INTEGER"
    ELSE IF \A v \in values : IsNumber(v) THEN "REAL"
    ELSE "TEXT"

\* _infer_columns: clean name -> type; when two keys share a clean name the
\* dict keeps one of them (set iteration order decides which)
InferColumnsRaises(sample) == \E key \in AllColumns(sample) : key = <<>>

InferColumnsChoices(sample) ==
    LET keys  == AllColumns(sample)
        names == {CleanName(k) : k \in keys}
    IN  IF InferColumnsRaises(sample) THEN {<<>>}
        ELSE {cols \in [names -> {"INTEGER", "REAL", "BOOLEAN", "TEXT"}] :
                 \A n \in names : \E k \in keys :
                     CleanName(k) = n /\ cols[n] = InferType(SampleValues(sample, k))}

-----------------------------------------------------------------------------
(* The database file *)

ColumnsA == [k \in {KeyA} |-> "INTEGER"]

NoError == "None"

\* sqlite_master WHERE type='table'
AllTables(tbls, hist) ==
    DOMAIN tbls \cup {MetaName, SequenceName} \cup (IF hist THEN {HistoryName} ELSE {})

TableExists(tbls, hist, name) == name \in AllTables(tbls, hist)

\* the rows a scan of the table yields, in rowid order
RowsOf(tbls, hlog, name) ==
    IF name \in DOMAIN tbls THEN tbls[name].rows
    ELSE IF name = HistoryName THEN hlog
    ELSE <<>>

\* f \ {name}
DropKey(f, name) == [n \in DOMAIN f \ {name} |-> f[n]]

\* f with name |-> val
PutKey(f, name, val) == [n \in DOMAIN f \cup {name} |-> IF n = name THEN val ELSE f[n]]

-----------------------------------------------------------------------------
(* _get_connection: the connection events of one "with" block.  body is the
   events of the connections the block itself opens; raises says that the
   block ends by an exception *)

\* _get_connection without its "finally": the connection is closed only
\* when the block ends normally
GetConnectionNoFinally(body, raises) ==
    <<"connect">> \o body \o (IF raises THEN <<"rollback">> ELSE <<"close">>)

GetConnection(body, raises) ==
    <<"connect">> \o body \o (IF raises THEN <<"rollback">> ELSE <<>>) \o <<"close">>

-----------------------------------------------------------------------------
(* Statements: leading whitespace, the first whitespace-delimited token as
   written, and the table the statement is about *)

Stmt(lead, verb, target, quoted) ==
    [lead |-> lead, verb |-> verb, target |-> target, quoted |-> quoted]

KwSelect == <<"S","E","L","E","C","T">>

KwSelectLower == <<"s","e","l","e","c","t">>

KwWith == <<"W","I","T","H">>

KwInsert == <<"I","N","S","E","R","T">>

KwDelete == <<"D","E","L","E","T","E">>

KwDrop == <<"D","R","O","P">>

KwCreate == <<"C","R","E","A","T","E">>

KwInvalid == <<"I","N","V","A","L","I","D">>

\* "  select * from t"
SelectLowerT == Stmt(TRUE, KwSelectLower, NameT, FALSE)

\* "WITH x AS (SELECT * FROM t) SELECT * FROM x"
WithT == Stmt(FALSE, KwWith, NameT, FALSE)

\* "INSERT INTO t VALUES (1)"
InsertT == Stmt(FALSE, KwInsert, NameT, FALSE)

\* "DELETE FROM _mcp_query_history"
DeleteHistory == Stmt(FALSE, KwDelete, HistoryName, FALSE)

\* "DROP TABLE _mcp_query_history"
DropHistory == Stmt(FALSE, KwDrop, HistoryName, FALSE)

\* "DROP TABLE t"
DropT == Stmt(FALSE, KwDrop, NameT, FALSE)

\* 'CREATE TABLE "t-" (a INTEGER)'
CreateDash == Stmt(FALSE, KwCreate, NameDash, TRUE)

\* "INVALID SQL STATEMENT"
InvalidSql == Stmt(FALSE, KwInvalid, <<>>, FALSE)

\* "   "
BlankSql == Stmt(TRUE, <<>>, <<>>, FALSE)

\* the statements issued while the tables are exercised
TableStatements == {SelectLowerT, InsertT, DropT, CreateDash}

\* the statements issued while the history is exercised
HistoryStatements ==
    {SelectLowerT, WithT, InsertT, DeleteHistory, DropHistory, InvalidSql, BlankSql}

\* the tokens as written: upper() left out
TokensAsWritten(q) == IF q.verb = <<>> THEN <<>> ELSE <<q.verb>>

\* query.strip().upper().split(): the tokens of the statement, of which the
\* code reads the first
Tokens(q) == IF q.verb = <<>> THEN <<>> ELSE <<Upper(q.verb)>>

-----------------------------------------------------------------------------
(* sqlite3: cursor.execute(query) on the open connection.  err is the
   engine's error or NoError; active says that the cursor still has rows to
   step, so the connection keeps its read lock on the file.  The statements
   of the model read, fill, drop and empty the user tables and the history
   table only. *)

SqlOk(tbls, hist, hlog, rows, rowcount, lastrowid, active) ==
    [err |-> NoError, tables |-> tbls, histTable |-> hist, history |-> hlog,
     rows |-> rows, rowcount |-> rowcount, lastrowid |-> lastrowid, active |-> active]

SqlFail(tbls, hist, hlog, msg) ==
    [err |-> msg, tables |-> tbls, histTable |-> hist, history |-> hlog,
     rows |-> <<>>, rowcount |-> -1, lastrowid |-> 0, active |-> FALSE]

SqlExecute(q, tbls, hist, hlog) ==
    LET kw == Upper(q.verb)
        t  == q.target
        ok == q.quoted \/ BareIdentifier(t)
        ex == TableExists(tbls, hist, t)
    IN  IF kw = <<>> THEN SqlOk(tbls, hist, hlog, <<>>, -1, 0, FALSE)
        ELSE IF kw \notin {KwSelect, KwWith, KwInsert, KwDelete, KwDrop, KwCreate} \/ ~ok
        THEN SqlFail(tbls, hist, hlog, "syntax error")
        ELSE IF kw = KwCreate
        THEN IF ex THEN SqlFail(tbls, hist, hlog, "table already exists")
             ELSE IF StartsWith(t, SqlitePrefix)
             THEN SqlFail(tbls, hist, hlog, "object name reserved for internal use")
             ELSE SqlOk(PutKey(tbls, t, [cols |-> ColumnsA, rows |-> <<>>]),
                        hist, hlog, <<>>, -1, 0, FALSE)
        ELSE IF ~ex THEN SqlFail(tbls, hist, hlog, "no such table")
        ELSE IF kw \in {KwSelect, KwWith}
        THEN SqlOk(tbls, hist, hlog, RowsOf(tbls, hlog, t), -1, 0,
                   Len(RowsOf(tbls, hlog, t)) >= 1)
        ELSE IF kw = KwDrop
        THEN IF t = HistoryName THEN SqlOk(tbls, FALSE, <<>>, <<>>, -1, 0, FALSE)
             ELSE IF t \in DOMAIN tbls
             THEN SqlOk(DropKey(tbls, t), hist, hlog, <<>>, -1, 0, FALSE)
             ELSE SqlFail(tbls, hist, hlog, "table may not be dropped")
        ELSE IF kw = KwDelete
        THEN IF t = HistoryName THEN SqlOk(tbls, hist, <<>>, <<>>, Len(hlog), 0, FALSE)
             ELSE IF t \in DOMAIN tbls
             THEN SqlOk(PutKey(tbls, t, [tbls[t] EXCEPT !.rows = <<>>]), hist, hlog,
                        <<>>, Len(tbls[t].rows), 0, FALSE)
             ELSE SqlFail(tbls, hist, hlog, "table may not be modified")
        ELSE \* INSERT INTO t VALUES (1)
             IF t \in DOMAIN tbls /\ Cardinality(DOMAIN tbls[t].cols) = 1
             THEN SqlOk(PutKey(tbls, t,
                               [tbls[t] EXCEPT !.rows =
                                   Append(@, [c \in DOMAIN tbls[t].cols |-> IntV(1)])]),
                        hist, hlog, <<>>, 1, Len(tbls[t].rows) + 1, FALSE)
             ELSE SqlFail(tbls, hist, hlog, "wrong number of values")

-----------------------------------------------------------------------------
(* _log_query: a connection of its own inserts one history row and commits.
   The insert fails when the history table is gone, and the commit fails
   ("database is locked") while another connection holds a read lock; either
   failure is caught and only warned about, so err is always NoError. *)

HistoryEntry(id, q, rowsAffected, success, errorMessage, at) ==
    [id |-> id, query |-> q, rows_affected |-> rowsAffected, success |-> success,
     error_message |-> errorMessage, executed_at |-> at]

LogWritten(hist, locked) == hist /\ ~locked

\* _log_query without its try/except: a failed write raises
LogQueryRaises(hist, hlog, id, locked, q, rowsAffected, success, errorMessage, at) ==
    IF LogWritten(hist, locked)
    THEN [history |-> Append(hlog, HistoryEntry(id, q, rowsAffected, success, errorMessage, at)),
          nextId |-> id + 1, err |-> NoError]
    ELSE [history |-> hlog, nextId |-> id,
          err |-> IF hist THEN "database is locked" ELSE "no such table"]

\* _log_query replacing the history instead of adding to it
LogQueryOverwrites(hist, hlog, id, locked, q, rowsAffected, success, errorMessage, at) ==
    IF LogWritten(hist, locked)
    THEN [history |-> <<HistoryEntry(id, q, rowsAffected, success, errorMessage, at)>>,
          nextId |-> id + 1, err |-> NoError]
    ELSE [history |-> hlog, nextId |-> id, err |-> NoError]

LogQuery(hist, hlog, id, locked, q, rowsAffected, success, errorMessage, at) ==
    IF LogWritten(hist, locked)
    THEN [history |-> Append(hlog, HistoryEntry(id, q, rowsAffected, success, errorMessage, at)),
          nextId |-> id + 1, err |-> NoError]
    ELSE [history |-> hlog, nextId |-> id, err |-> NoError]

\* the connection of _log_query: a failed insert or commit raises inside
\* the block and is caught outside it
LogConnections(hist, locked) == GetConnection(<<>>, ~LogWritten(hist, locked))

-----------------------------------------------------------------------------
(* Results of the adapter's operations *)

Returned(value) == [raised |-> FALSE, value |-> value]

Raised(type, msg) == [raised |-> TRUE, error |-> [type |-> type, msg |-> msg]]

\* the result mapping of execute_query on its SELECT branch
SelectResult(rows) ==
    [success |-> TRUE, query_type |-> KwSelect, rows_returned |-> Len(rows), data |-> rows]

\* the result mapping of execute_query on its other branch
ModifyResult(queryType, rowcount, lastrowid) ==
    IF queryType = KwInsert /\ lastrowid # 0
    THEN [success |-> TRUE, query_type |-> queryType, rows_affected |-> rowcount,
          last_insert_id |-> lastrowid]
    ELSE [success |-> TRUE, query_type |-> queryType, rows_affected |-> rowcount]

-----------------------------------------------------------------------------
(* execute_query(query): the state after the call and what the caller gets *)

\* the except branch: by now the connection is closed; the failure is
\* logged and the error raised again
ExecuteFailure(q, tbls, hist, hlog, id, at, type, msg) ==
    LET l == LogQuery(hist, hlog, id, FALSE, q, 0, FALSE, msg, at)
    IN  [tables |-> tbls, histTable |-> hist, history |-> l.history, nextId |-> l.nextId,
         result |-> IF l.err # NoError THEN Raised("OperationalError", l.err)
                    ELSE Raised(type, msg)]

\* the end of the try block: the query is logged while the connection of
\* the statement is still open (locked: it still holds its read lock), and
\* the result is returned
ExecuteSuccess(q, r, id, at, locked, rowsLogged, value) ==
    LET l == LogQuery(r.histTable, r.history, id, locked, q, rowsLogged, TRUE, NoError, at)
    IN  IF l.err # NoError
        THEN ExecuteFailure(q, r.tables, r.histTable, l.history, l.nextId, at,
                            "OperationalError", l.err)
        ELSE [tables |-> r.tables, histTable |-> r.histTable, history |-> l.history,
              nextId |-> l.nextId, result |-> Returned(value)]

ExecuteOutcome(q, tbls, hist, hlog, id, at) ==
    LET r == SqlExecute(q, tbls, hist, hlog)
    IN  IF r.err # NoError
        THEN \* the engine rejects the statement: rollback and close
             ExecuteFailure(q, tbls, hist, hlog, id, at, "OperationalError", r.err)
        ELSE IF Tokens(q) = <<>>
        THEN \* split()[0] on no tokens
             ExecuteFailure(q, tbls, hist, hlog, id, at, "IndexError",
                            "list index out of range")
        ELSE IF Tokens(q)[1] = KwSelect
        THEN \* fetchall() steps the statement to its end
             ExecuteSuccess(q, r, id, at, FALSE, Len(r.rows), SelectResult(r.rows))
        ELSE \* commit and rowcount; the cursor is never fetched
             ExecuteSuccess(q, r, id, at, r.active, r.rowcount,
                            ModifyResult(Tokens(q)[1], r.rowcount, r.lastrowid))

\* the connections of one execute_query: on the success path _log_query runs
\* inside the block of the statement's connection, on the failure path
\* after it
ExecuteConnections(q, tbls, hist, hlog) ==
    LET r == SqlExecute(q, tbls, hist, hlog)
    IN  IF r.err # NoError \/ Tokens(q) = <<>>
        THEN GetConnection(<<>>, TRUE) \o LogConnections(hist, FALSE)
        ELSE GetConnection(LogConnections(r.histTable,
                                          Tokens(q)[1] # KwSelect /\ r.active),
                           FALSE)

ExecuteQuery(q) ==
    /\ histTable => nextId <= MaxLogged
    /\ (q = InsertT /\ NameT \in DOMAIN tables) => Len(tables[NameT].rows) < MaxRows
    /\ LET o == ExecuteOutcome(q, tables, histTable, history, nextId, clock)
       IN  /\ tables' = o.tables
           /\ histTable' = o.histTable
           /\ history' = o.history
           /\ nextId' = o.nextId
           /\ result' = o.result
    /\ conns' = ExecuteConnections(q, tables, histTable, history)
    /\ call' = [op |-> "execute_query", query |-> q]
    /\ UNCHANGED <<meta, clock, files>>

-----------------------------------------------------------------------------
(* create_table_from_data(table_name, data, description) *)

\* None or the empty string: "if description:" is false
NoDescription == ""

Descriptions == {NoDescription, "sales"}

RowA == [k \in {KeyA} |-> IntV(1)]

\* n rows {"a": 1}
RowsA(n) == [i \in 1..n |-> RowA]

\* the one row {}
EmptyMapping == << <<>> >>

\* no row, one row, one row more than describe_table samples, one empty row
DataSets == {RowsA(0), RowsA(1), RowsA(SampleLimit + 1), EmptyMapping}

CreateCall(name, data, description) ==
    [name |-> name, data |-> data, description |-> description]

\* the calls made: every name with one row and no description, and the
\* name t with every data set, with and without a description
CreateCalls ==
    {CreateCall(n, RowsA(1), NoDescription) : n \in TableNames}
    \cup {CreateCall(NameT, d, desc) : d \in DataSets, desc \in Descriptions}

\* "not table_name.replace('_', '').isalnum()" is false
ValidTableName(name) == IsAlnum(StripUnderscores(name))

\* str(n) for the numbers of the model: one digit, and ".0" or ".5" after
\* it for a float
DigitChar(n) == <<"0", "1", "2", "3", "4", "5", "6", "7", "8", "9">>[n + 1]

NumberText(v) ==
    IF v.ty = "float"
    THEN <<DigitChar(v.v \div 2), ".", IF v.v % 2 = 0 THEN "0" ELSE "5">>
    ELSE <<DigitChar(v.v)>>

\* the value the engine keeps for a bound value in a column of the declared
\* type (column affinity): a bool is bound as an integer; a TEXT column
\* keeps numbers as their text, a REAL column keeps integers as floats, an
\* INTEGER or BOOLEAN column keeps a float without fraction as an integer
Stored(v, type) ==
    IF v.ty \in {"none", "list", "str"} THEN v
    ELSE IF type = "TEXT" THEN StrV(NumberText(v))
    ELSE IF type = "REAL" THEN RealV(IF v.ty = "float" THEN v.v ELSE 2 * v.v)
    ELSE IF v.ty = "float" THEN (IF v.v % 2 = 0 THEN IntV(v.v \div 2) ELSE v)
    ELSE IntV(v.v)

\* values = [row.get(col, None) for col in columns.keys()]: the lookup is by
\* the column's clean name
InsertValues(row, cols) == [c \in DOMAIN cols |-> Stored(RowGet(row, c), cols[c])]

\* the engine's answer to CREATE TABLE name (col type, ...)
CreateTableError(name, cols, tbls, hist) ==
    IF ~BareIdentifier(name) \/ DOMAIN cols = {} THEN "syntax error"
    ELSE IF TableExists(tbls, hist, name) THEN "table already exists"
    ELSE IF StartsWith(name, SqlitePrefix) THEN "object name reserved for internal use"
    ELSE NoError

CreateOutcome(name, data, description, cols, tbls, hist, mt) ==
    IF data = <<>>
    THEN [tables |-> tbls, meta |-> mt,
          result |-> Raised("ValueError", "Data cannot be empty")]
    ELSE IF ~ValidTableName(name)
    THEN [tables |-> tbls, meta |-> mt,
          result |-> Raised("ValueError", "Table name must be alphanumeric")]
    ELSE IF InferColumnsRaises(Take(data, InferSample))
    THEN [tables |-> tbls, meta |-> mt,
          result |-> Raised("IndexError", "string index out of range")]
    ELSE IF CreateTableError(name, cols, tbls, hist) # NoError
    THEN [tables |-> tbls, meta |-> mt,
          result |-> Raised("OperationalError", CreateTableError(name, cols, tbls, hist))]
    ELSE IF \E i \in 1..Len(data) : \E c \in DOMAIN cols : ~Bindable(RowGet(data[i], c))
    THEN \* CREATE TABLE is committed on its own; the inserts are rolled back
         [tables |-> PutKey(tbls, name, [cols |-> cols, rows |-> <<>>]), meta |-> mt,
          result |-> Raised("ProgrammingError", "type is not supported")]
    ELSE [tables |-> PutKey(tbls, name,
                            [cols |-> cols,
                             rows |-> [i \in 1..Len(data) |-> InsertValues(data[i], cols)]]),
          meta |-> IF description # NoDescription THEN PutKey(mt, name, description) ELSE mt,
          result |-> Returned([success |-> TRUE, table_name |-> name,
                               rows_inserted |-> Len(data), columns |-> cols])]

\* the connection of one create_table_from_data: none before the checks
\* and the inference have passed
CreateConnections(name, data, cols, tbls, hist) ==
    IF data = <<>> \/ ~ValidTableName(name) \/ InferColumnsRaises(Take(data, InferSample))
    THEN <<>>
    ELSE GetConnection(<<>>,
                       \/ CreateTableError(name, cols, tbls, hist) # NoError
                       \/ \E i \in 1..Len(data) : \E c \in DOMAIN cols :
                              ~Bindable(RowGet(data[i], c)))

CreateTableFromData(name, data, description) ==
    /\ \E cols \in InferColumnsChoices(Take(data, InferSample)) :
          LET o == CreateOutcome(name, data, description, cols, tables, histTable, meta)
          IN  /\ tables' = o.tables
              /\ meta' = o.meta
              /\ result' = o.result
              /\ conns' = CreateConnections(name, data, cols, tables, histTable)
    /\ call' = [op |-> "create_table_from_data", name |-> name, data |-> data,
                description |-> description]
    /\ UNCHANGED <<histTable, history, nextId, clock, files>>

\* columns = self._infer_columns(data[:10]) on its own: the mapping returned
\* or the IndexError of clean_name[0] on an empty key
InferOutcome(data, cols) ==
    IF InferColumnsRaises(Take(data, InferSample))
    THEN Raised("IndexError", "string index out of range")
    ELSE Returned(cols)

InferColumns(data) ==
    /\ \E cols \in InferColumnsChoices(Take(data, InferSample)) :
          result' = InferOutcome(data, cols)
    /\ call' = [op |-> "_infer_columns", data |-> data]
    /\ UNCHANGED <<tables, meta, histTable, history, nextId, clock, files, conns>>

-----------------------------------------------------------------------------
(* _get_table_info, list_tables, describe_table *)

\* PRAGMA table_info(name) and the metadata lookup; detailed adds the index
\* and foreign-key lists, which are empty for the tables of the model
TableInfo(name, detailed, tbls, mt) ==
    [name |-> name, columns |-> tbls[name].cols,
     column_count |-> Cardinality(DOMAIN tbls[name].cols)]
    @@ (IF detailed THEN [indexes |-> {}, foreign_keys |-> {}] ELSE <<>>)
    @@ (IF name \in DOMAIN mt THEN [description |-> mt[name]] ELSE <<>>)

\* WHERE type='table' AND name NOT LIKE 'sqlite_%' AND name NOT LIKE '_mcp_%'
UserTables(tbls, hist) ==
    {n \in AllTables(tbls, hist) : ~Like(n, SqliteLike) /\ ~Like(n, McpLike)}

ListOutcome(tbls, hist, mt) ==
    LET user == UserTables(tbls, hist)
    IN  IF \E n \in user : ~BareIdentifier(n)
        THEN \* PRAGMA table_info({table_name}) does not parse
             Raised("OperationalError", "syntax error")
        ELSE Returned([success |-> TRUE,
                       total_tables |-> Cardinality(user),
                       system_tables |-> Cardinality(AllTables(tbls, hist)) - Cardinality(user),
                       tables |-> {TableInfo(n, FALSE, tbls, mt) : n \in user}])

\* "SELECT name FROM sqlite_master ..."
SelectMaster ==
    Stmt(FALSE, KwSelect, <<"s","q","l","i","t","e","_","m","a","s","t","e","r">>, FALSE)

\* list_tables running its SELECT through execute_query, which logs it
ListTablesLogged ==
    /\ histTable => nextId <= MaxLogged
    /\ result' = ListOutcome(tables, histTable, meta)
    /\ conns' = GetConnection(<<>>, ListOutcome(tables, histTable, meta).raised)
    /\ call' = [op |-> "list_tables"]
    /\ LET l == LogQuery(histTable, history, nextId, FALSE, SelectMaster,
                         Cardinality(UserTables(tables, histTable)), TRUE, NoError, clock)
       IN  history' = l.history /\ nextId' = l.nextId
    /\ UNCHANGED <<tables, meta, histTable, clock, files>>

ListTables ==
    /\ result' = ListOutcome(tables, histTable, meta)
    /\ conns' = GetConnection(<<>>, ListOutcome(tables, histTable, meta).raised)
    /\ call' = [op |-> "list_tables"]
    /\ UNCHANGED <<tables, meta, histTable, history, nextId, clock, files>>

\* the names describe_table is called with: user tables and a name that is
\* never a table
DescribeNames == {NameT, NameDash, NameXmcpy, NameMissing}

DescribeOutcome(name, tbls, hist, hlog, mt) ==
    IF ~TableExists(tbls, hist, name)
    THEN Raised("ValueError", "does not exist")
    ELSE IF ~BareIdentifier(name)
    THEN \* PRAGMA table_info({table_name}) does not parse
         Raised("OperationalError", "syntax error")
    ELSE Returned([success |-> TRUE,
                   table_info |->
                       TableInfo(name, TRUE, tbls, mt)
                       @@ [sample_data |->
                               [columns |-> DOMAIN tbls[name].cols,
                                rows |-> Take(RowsOf(tbls, hlog, name), SampleLimit)],
                           row_count |-> Len(RowsOf(tbls, hlog, name))]])

DescribeTable(name) ==
    /\ result' = DescribeOutcome(name, tables, histTable, history, meta)
    /\ conns' = GetConnection(<<>>,
                               DescribeOutcome(name, tables, histTable, history, meta).raised)
    /\ call' = [op |-> "describe_table", name |-> name]
    /\ UNCHANGED <<tables, meta, histTable, history, nextId, clock, files>>

-----------------------------------------------------------------------------
(* get_query_history(limit) *)

\* ORDER BY executed_at DESC: rows of one second stay in rowid order
RECURSIVE OrderByExecutedAtDesc(_, _)
OrderByExecutedAtDesc(hlog, at) ==
    IF at < 0 THEN <<>>
    ELSE SelectSeq(hlog, LAMBDA e : e.executed_at = at)
         \o OrderByExecutedAtDesc(hlog, at - 1)

\* LIMIT ?: a negative limit is no limit
Limit(s, n) == IF n < 0 THEN s ELSE Take(s, n)

\* the selected columns: the id is not among them
HistoryItem(e) ==
    [query |-> e.query, rows_affected |-> e.rows_affected, executed_at |-> e.executed_at,
     success |-> e.success, error_message |-> e.error_message]

HistoryOutcome(limit, hist, hlog, now) ==
    IF ~hist THEN Raised("OperationalError", "no such table")
    ELSE LET sel == Limit(OrderByExecutedAtDesc(hlog, now), limit)
         IN  Returned([success |-> TRUE,
                       history |-> [i \in 1..Len(sel) |-> HistoryItem(sel[i])]])

GetQueryHistory(limit) ==
    /\ result' = HistoryOutcome(limit, histTable, history, clock)
    /\ conns' = GetConnection(<<>>, HistoryOutcome(limit, histTable, history, clock).raised)
    /\ call' = [op |-> "get_query_history", limit |-> limit]
    /\ UNCHANGED <<tables, meta, histTable, history, nextId, clock, files>>

-----------------------------------------------------------------------------
(* The file tree read by file_browser.py and document_reader.py.  A path is
   the sequence of names below the directory the tree is rooted at; files
   maps every path of the tree to its node.  Permissions, owners, timestamps
   and hashes are left out of the item information. *)

\* str.lower() on one character
LowerChar(c) ==
    CASE c = "A" -> "a" [] c = "B" -> "b" [] c = "C" -> "c" [] c = "D" -> "d"
      [] c = "E" -> "e" [] c = "F" -> "f" [] c = "G" -> "g" [] c = "H" -> "h"
      [] c = "I" -> "i" [] c = "J" -> "j" [] c = "K" -> "k" [] c = "L" -> "l"
      [] c = "M" -> "m" [] c = "N" -> "n" [] c = "O" -> "o" [] c = "P" -> "p"
      [] c = "Q" -> "q" [] c = "R" -> "r" [] c = "S" -> "s" [] c = "T" -> "t"
      [] c = "U" -> "u" [] c = "V" -> "v" [] c = "W" -> "w" [] c = "X" -> "x"
      [] c = "Y" -> "y" [] c = "Z" -> "z" [] OTHER -> c

\* str.lower()
Lower(s) == [i \in 1..Len(s) |-> LowerChar(s[i])]

\* the characters of the names, in code point order
CodePointOrder ==
    <<".", "0","1","2","3","4","5","6","7","8","9",
      "A","B","C","D","E","F","G","H","I","J","K","L","M",
      "N","O","P","Q","R","S","T","U","V","W","X","Y","Z", "_",
      "a","b","c","d","e","f","g","h","i","j","k","l","m",
      "n","o","p","q","r","s","t","u","v","w","x","y","z">>

CodePoint(c) == CHOOSE i \in 1..Len(CodePointOrder) : CodePointOrder[i] = c

\* s < t on strings
RECURSIVE StrLess(_, _)
StrLess(s, t) ==
    IF t = <<>> THEN FALSE
    ELSE IF s = <<>> THEN TRUE
    ELSE IF Head(s) = Head(t) THEN StrLess(Tail(s), Tail(t))
    ELSE CodePoint(Head(s)) < CodePoint(Head(t))

\* the contents of a file, as the extractors see them
NoContent == [type |-> "none", rows |-> 0]

TextContent == [type |-> "text", rows |-> 0]

PdfContent == [type |-> "pdf", rows |-> 0]

DocxContent == [type |-> "docx", rows |-> 0]

\* a workbook of one sheet of n data rows / a header line and n data rows
ExcelContent(n) == [type |-> "excel", rows |-> n]

CsvContent(n) == [type |-> "csv", rows |-> n]

\* st_size of a directory
DirSize == 4096

DirNode == [kind |-> "dir", size |-> DirSize, content |-> NoContent, text |-> <<>>]

FileNode(size, content, text) ==
    [kind |-> "file", size |-> size, content |-> content, text |-> text]

\* a symbolic link whose target is missing: stat() fails on it
BrokenLink == [kind |-> "broken", size |-> 0, content |-> NoContent, text |-> <<>>]

\* the names of the tree
NameATxt == <<"a",".","t","x","t">>

NameBTxt == <<"b",".","t","x","t">>

NameCTxt == <<"c",".","t","x","t">>

NameNotes == <<"n","o","t","e","s">>

NameHidden == <<".","h",".","t","x","t">>

NameLink == <<"x">>

NameSub == <<"s","u","b">>

NameDeep == <<"d">>

NameCsv == <<"r",".","c","s","v">>

NameXlsx == <<"r",".","x","l","s","x">>

NamePdf == <<"R",".","P","D","F">>

NameDocx == <<"r",".","d","o","c","x">>

NameAbsent == <<"t","e","s","t",".","u","n","k","n","o","w","n">>

\* the name of the directory the tree is rooted at
RootName == <<"r","o","o","t">>

\* the text of a.txt: two lines
TwoLines == <<"h","i","\n","y","o">>

RootOnly == (<<>> :> DirNode)

\* a directory of text files two levels deep, a hidden file, a file without
\* suffix, a broken link, and four documents, the tabular ones of n data rows
Tree(n) ==
    (<<>> :> DirNode)
    @@ (<<NameATxt>> :> FileNode(5, TextContent, TwoLines))
    @@ (<<NameNotes>> :> FileNode(1, TextContent, <<"n">>))
    @@ (<<NameHidden>> :> FileNode(1, TextContent, <<"h">>))
    @@ (<<NameLink>> :> BrokenLink)
    @@ (<<NameSub>> :> DirNode)
    @@ (<<NameSub, NameBTxt>> :> FileNode(2, TextContent, <<"b","b">>))
    @@ (<<NameSub, NameDeep>> :> DirNode)
    @@ (<<NameSub, NameDeep, NameCTxt>> :> FileNode(3, TextContent, <<"c","c","c">>))
    @@ (<<NameCsv>> :> FileNode(n + 8, CsvContent(n), <<>>))
    @@ (<<NameXlsx>> :> FileNode(n + 9, ExcelContent(n), <<>>))
    @@ (<<NamePdf>> :> FileNode(7, PdfContent, <<>>))
    @@ (<<NameDocx>> :> FileNode(6, DocxContent, <<>>))

\* Path.name
PathName(p) == IF p = <<>> THEN RootName ELSE p[Len(p)]

\* Path.exists() / is_dir() / is_file(): all follow links
PathExists(fs, p) == p \in DOMAIN fs /\ fs[p].kind # "broken"

IsDir(fs, p) == p \in DOMAIN fs /\ fs[p].kind = "dir"

IsFile(fs, p) == p \in DOMAIN fs /\ fs[p].kind = "file"

\* a symbolic link to an existing file: stat(), is_file() and open() follow
\* the link, so the node carries what its target carries, and the target
LinkNode(fs, target) == fs[target] @@ [target |-> target]

\* Path.is_symlink()
IsSymlink(fs, p) ==
    p \in DOMAIN fs /\ (fs[p].kind = "broken" \/ "target" \in DOMAIN fs[p])

\* Path.resolve(): the target in place of a link; the target of a broken
\* link is a path that does not exist
Resolve(fs, p) ==
    IF p \in DOMAIN fs /\ "target" \in DOMAIN fs[p] THEN fs[p].target ELSE p

\* Path.iterdir()
IterDir(fs, p) ==
    {q \in DOMAIN fs : Len(q) = Len(p) + 1 /\ SubSeq(q, 1, Len(p)) = p}

\* Path.suffix: from the last dot, unless the name starts or ends there
LastDot(name) ==
    IF \E i \in 1..Len(name) : name[i] = "."
    THEN CHOOSE i \in 1..Len(name) :
             name[i] = "." /\ \A j \in (i + 1)..Len(name) : name[j] # "."
    ELSE 0

Suffix(name) ==
    IF 1 < LastDot(name) /\ LastDot(name) < Len(name)
    THEN SubSeq(name, LastDot(name), Len(name))
    ELSE <<>>

-----------------------------------------------------------------------------
(* file_browser.py: _get_item_info, _scan_directory, browse_directory *)

Mime(major, minor) == [major |-> major, minor |-> minor]

\* guess_type()[0] is None
MimeNone == [none |-> TRUE]

\* mimetypes.guess_type on the name: by the suffix, lower-cased when the
\* suffix as written is not known
GuessType(name) ==
    LET ext == Lower(Suffix(name))
    IN  CASE ext = <<".","t","x","t">> -> Mime("text", "plain")
          [] ext = <<".","c","s","v">> -> Mime("text", "csv")
          [] ext = <<".","p","d","f">> -> Mime("application", "pdf")
          [] ext = <<".","x","l","s","x">> -> Mime("application", "sheet")
          [] ext = <<".","d","o","c","x">> -> Mime("application", "document")
          [] OTHER -> MimeNone

\* the mapping returned when stat() fails
ItemError(p) ==
    [name |-> PathName(p), path |-> p, error |-> "No such file or directory",
     type |-> "unknown"]

\* _get_item_info(path)
GetItemInfo(fs, p) ==
    IF fs[p].kind = "broken" THEN ItemError(p)
    ELSE IF fs[p].kind = "file"
    THEN [name |-> PathName(p), path |-> p, type |-> "file", size |-> fs[p].size,
          extension |-> Lower(Suffix(PathName(p))), mime_type |-> GuessType(PathName(p))]
    ELSE [name |-> PathName(p), path |-> p, type |-> "directory", size |-> fs[p].size,
          item_count |-> Cardinality(IterDir(fs, p))]

\* the sort key (x.get("type", "unknown"), x.get("name", "")): the three
\* types in the order of their spelling
TypeRank(type) ==
    CASE type = "directory" -> 1 [] type = "file" -> 2 [] OTHER -> 3

KeyLess(x, y) ==
    \/ TypeRank(x.type) < TypeRank(y.type)
    \/ TypeRank(x.type) = TypeRank(y.type) /\ StrLess(x.name, y.name)

\* sorted(items, key=...) for items of distinct keys
RECURSIVE Sorted(_)
Sorted(items) ==
    IF items = {} THEN <<>>
    ELSE LET first == CHOOSE x \in items : \A y \in items \ {x} : KeyLess(x, y)
         IN  <<first>> \o Sorted(items \ {first})

\* the entries a scan lists: hidden ones only on request
Listed(fs, p, includeHidden) ==
    {q \in IterDir(fs, p) : includeHidden \/ PathName(q)[1] # "."}

\* the scan recursing into every directory it lists, whatever the depth
RECURSIVE ScanUnbounded(_, _, _, _, _)
ScanUnbounded(fs, p, includeHidden, maxDepth, currentDepth) ==
    Sorted({IF IsDir(fs, q)
            THEN LET children == ScanUnbounded(fs, q, includeHidden, maxDepth,
                                               currentDepth + 1)
                 IN  GetItemInfo(fs, q)
                     @@ [children |-> children, child_count |-> Len(children)]
            ELSE GetItemInfo(fs, q) : q \in Listed(fs, p, includeHidden)})

\* _scan_directory(path, include_hidden, max_depth, current_depth)
RECURSIVE ScanAt(_, _, _, _, _)
ScanAt(fs, p, includeHidden, maxDepth, currentDepth) ==
    Sorted({IF IsDir(fs, q) /\ currentDepth < maxDepth - 1
            THEN LET children == ScanAt(fs, q, includeHidden, maxDepth, currentDepth + 1)
                 IN  GetItemInfo(fs, q)
                     @@ [children |-> children, child_count |-> Len(children)]
            ELSE GetItemInfo(fs, q) : q \in Listed(fs, p, includeHidden)})

ScanDirectory(fs, p, includeHidden, maxDepth, currentDepth) ==
    ScanAt(fs, p, includeHidden, maxDepth, currentDepth)

\* the number of items of the given type
CountType(items, type) ==
    Cardinality({i \in 1..Len(items) : items[i].type = type})

\* the sum of item.get("size", 0) over the items that are not directories
RECURSIVE SizeOfFiles(_)
SizeOfFiles(items) ==
    IF items = <<>> THEN 0
    ELSE (IF Head(items).type # "directory" /\ "size" \in DOMAIN Head(items)
          THEN Head(items).size ELSE 0)
         + SizeOfFiles(Tail(items))

\* the summary loop: whatever is not a directory counts as a file
Summary(items) ==
    [total_items |-> Len(items),
     directories |-> CountType(items, "directory"),
     files |-> Len(items) - CountType(items, "directory"),
     total_size |-> SizeOfFiles(items)]

BrowseOutcome(fs, p, includeHidden, maxDepth) ==
    IF ~PathExists(fs, p) THEN Raised("FileNotFoundError", "Path does not exist")
    ELSE IF ~IsDir(fs, p) THEN Raised("ValueError", "Path is not a directory")
    ELSE LET items == ScanDirectory(fs, p, includeHidden, maxDepth, 0)
         IN  Returned([success |-> TRUE, path |-> p, items |-> items,
                       summary |-> Summary(items)])

BrowseDirectory(p, includeHidden, maxDepth) ==
    /\ result' = BrowseOutcome(files, p, includeHidden, maxDepth)
    /\ call' = [op |-> "browse_directory", path |-> p, include_hidden |-> includeHidden,
                max_depth |-> maxDepth]
    /\ UNCHANGED <<tables, meta, histTable, history, nextId, clock, files, conns>>

-----------------------------------------------------------------------------
(* file_browser.py: search_files without content search *)

\* fnmatch.fnmatch(name, pattern) on a POSIX system: '*' matches any run of
\* characters, '?' any one character, every other character itself
RECURSIVE Fnmatch(_, _)
Fnmatch(name, pat) ==
    IF pat = <<>> THEN name = <<>>
    ELSE IF Head(pat) = "*"
         THEN Fnmatch(name, Tail(pat)) \/ (name # <<>> /\ Fnmatch(Tail(name), pat))
         ELSE /\ name # <<>>
              /\ (Head(pat) = "?" \/ Head(pat) = Head(name))
              /\ Fnmatch(Tail(name), Tail(pat))

PatTxt == <<"*",".","t","x","t">>

PatAll == <<"*">>

PatOneChar == <<"?">>

PatColon == <<"*",":","b">>

Patterns == {PatTxt, PatAll, PatOneChar, PatColon}

\* the entries of a set of paths in the order of their names
RECURSIVE ByName(_)
ByName(paths) ==
    IF paths = {} THEN <<>>
    ELSE LET first == CHOOSE q \in paths :
                          \A r \in paths \ {q} : StrLess(PathName(q), PathName(r))
         IN  <<first>> \o ByName(paths \ {first})

\* directory.rglob("*"): every entry below p, each followed by the entries
\* below it; the entries of one directory are taken in the order of their
\* names
RECURSIVE WalkAll(_, _)
RECURSIVE Walk(_, _)
Walk(fs, p) == WalkAll(fs, ByName(IterDir(fs, p)))

\* the concatenation of the walks of the paths of a sequence
WalkAll(fs, paths) ==
    IF paths = <<>> THEN <<>>
    ELSE <<Head(paths)>> \o Walk(fs, Head(paths)) \o WalkAll(fs, Tail(paths))

\* directory.glob("*"): the entries of p itself
GlobFlat(fs, p) == ByName(IterDir(fs, p))

Rglob(fs, p) == Walk(fs, p)

MatchInfo(fs, q) ==
    [path |-> q, name |-> PathName(q), size |-> fs[q].size, match_type |-> "filename"]

\* the loop over rglob("*") with content_pattern None
FilenameMatches(fs, p, filePattern) ==
    LET hits == SelectSeq(Rglob(fs, p),
                          LAMBDA q : IsFile(fs, q) /\ Fnmatch(PathName(q), filePattern))
    IN  [i \in 1..Len(hits) |-> MatchInfo(fs, hits[i])]

\* search_files(directory, pattern, include_content=False): the pattern is
\* not split at ':'
SearchOutcome(fs, p, pattern) ==
    IF ~PathExists(fs, p) THEN Raised("FileNotFoundError", "Directory does not exist")
    ELSE IF ~IsDir(fs, p) THEN Raised("ValueError", "Path is not a directory")
    ELSE LET matches == FilenameMatches(fs, p, pattern)
         IN  Returned([success |-> TRUE, directory |-> p, pattern |-> pattern,
                       total_matches |-> Len(matches), matches |-> matches])

SearchFiles(p, pattern) ==
    /\ result' = SearchOutcome(files, p, pattern)
    /\ call' = [op |-> "search_files", directory |-> p, pattern |-> pattern]
    /\ UNCHANGED <<tables, meta, histTable, history, nextId, clock, files, conns>>

-----------------------------------------------------------------------------
(* file_browser.py: search_files with content search *)

\* files above this size are not searched: 10 * 1024 * 1024
ContentSizeLimit == 10485760

\* the largest number of content matches kept for one file
ContentMatchLimit == 50

\* files above this size are not sniffed: 1024 * 1024
SniffLimit == 1048576

TextExtensions ==
    {<<".","t","x","t">>, <<".","m","d">>, <<".","p","y">>, <<".","j","s">>,
     <<".","h","t","m","l">>, <<".","c","s","s">>, <<".","j","s","o","n">>,
     <<".","x","m","l">>, <<".","y","a","m","l">>, <<".","y","m","l">>,
     <<".","c","s","v">>, <<".","l","o","g">>, <<".","c","f","g">>,
     <<".","c","o","n","f">>, <<".","i","n","i">>, <<".","s","h">>,
     <<".","b","a","t">>, <<".","s","q","l">>, <<".","r">>,
     <<".","j","a","v","a">>, <<".","c">>, <<".","c","p","p">>, <<".","h">>,
     <<".","h","p","p">>, <<".","p","h","p">>, <<".","r","b">>, <<".","g","o">>,
     <<".","r","s">>, <<".","t","s">>, <<".","v","u","e">>}

\* sample.decode('utf-8') succeeds: the text files of the model, not its
\* PDF, Word and Excel documents
DecodesAsUtf8(node) == node.content.type \in {"text", "csv"}

\* _is_text_file(file_path)
IsTextFile(fs, q) ==
    LET mime == GuessType(PathName(q))
    IN  \/ mime # MimeNone /\ mime.major = "text"
        \/ Lower(Suffix(PathName(q))) \in TextExtensions
        \/ fs[q].size <= SniffLimit /\ DecodesAsUtf8(fs[q])

\* the lines a text file iterates over, each with its newline
RECURSIVE Lines(_)
Lines(text) ==
    IF text = <<>> THEN <<>>
    ELSE IF \E i \in 1..Len(text) : text[i] = "\n"
    THEN LET n == CHOOSE i \in 1..Len(text) :
                      text[i] = "\n" /\ \A j \in 1..(i - 1) : text[j] # "\n"
         IN  <<SubSeq(text, 1, n)>> \o Lines(SubSeq(text, n + 1, Len(text)))
    ELSE <<text>>

\* str.strip()
Strip(s) ==
    LET inked == {i \in 1..Len(s) : s[i] \notin {" ", "\n", "\t"}}
    IN  IF inked = {} THEN <<>>
        ELSE SubSeq(s, CHOOSE i \in inked : \A j \in inked : i <= j,
                       CHOOSE i \in inked : \A j \in inked : j <= i)

\* s.find(t): the first position of t in s, counted from 0, or -1
Find(s, t) ==
    LET at == {i \in 0..(Len(s) - Len(t)) : SubSeq(s, i + 1, i + Len(t)) = t}
    IN  IF at = {} THEN -1 ELSE CHOOSE i \in at : \A j \in at : i <= j

\* the lines that hold the pattern, whatever their case
ContentHits(fs, q, pattern) ==
    LET lines == Lines(fs[q].text)
    IN  SelectSeq([i \in 1..Len(lines) |->
                      [line_number |-> i, line_content |-> Strip(lines[i]),
                       match_position |-> Find(Lower(lines[i]), Lower(pattern))]],
                  LAMBDA m : m.match_position # -1)

\* the content search without the limit on the matches of one file
SearchFileContentUnlimited(fs, q, pattern) ==
    IF fs[q].size > ContentSizeLimit THEN <<>>
    ELSE ContentHits(fs, q, pattern)

\* _search_file_content(file_path, pattern)
SearchFileContent(fs, q, pattern) ==
    IF fs[q].size > ContentSizeLimit THEN <<>>
    ELSE Take(ContentHits(fs, q, pattern), ContentMatchLimit)

\* the position of the first ':' of the pattern, or 0
FirstColon(pattern) ==
    IF \E i \in 1..Len(pattern) : pattern[i] = ":"
    THEN CHOOSE i \in 1..Len(pattern) :
             pattern[i] = ":" /\ \A j \in 1..(i - 1) : pattern[j] # ":"
    ELSE 0

\* file_pattern and content_pattern: pattern.split(':', 1) when content
\* search is asked for and the pattern holds a ':'; content None otherwise
SplitPattern(pattern, includeContent) ==
    IF FirstColon(pattern) # 0 /\ includeContent
    THEN [file |-> SubSeq(pattern, 1, FirstColon(pattern) - 1), none |-> FALSE,
          content |-> SubSeq(pattern, FirstColon(pattern) + 1, Len(pattern))]
    ELSE [file |-> pattern, none |-> TRUE, content |-> <<>>]

\* match_info of one file whose name matches: "if content_pattern" is false
\* for None and for the empty string
ContentMatchInfo(fs, q, split) ==
    IF ~split.none /\ split.content # <<>> /\ IsTextFile(fs, q)
       /\ SearchFileContent(fs, q, split.content) # <<>>
    THEN [MatchInfo(fs, q) EXCEPT !.match_type = "content"]
         @@ [content_matches |-> SearchFileContent(fs, q, split.content)]
    ELSE MatchInfo(fs, q)

\* search_files(directory, pattern, include_content)
SearchContentOutcome(fs, p, pattern, includeContent) ==
    IF ~PathExists(fs, p) THEN Raised("FileNotFoundError", "Directory does not exist")
    ELSE IF ~IsDir(fs, p) THEN Raised("ValueError", "Path is not a directory")
    ELSE LET split   == SplitPattern(pattern, includeContent)
             hits    == SelectSeq(Rglob(fs, p),
                                  LAMBDA q : IsFile(fs, q) /\ Fnmatch(PathName(q), split.file))
             matches == [i \in 1..Len(hits) |-> ContentMatchInfo(fs, hits[i], split)]
         IN  Returned([success |-> TRUE, directory |-> p, pattern |-> pattern,
                       total_matches |-> Len(matches), matches |-> matches])

SearchFilesContent(p, pattern, includeContent) ==
    /\ result' = SearchContentOutcome(files, p, pattern, includeContent)
    /\ call' = [op |-> "search_files", directory |-> p, pattern |-> pattern,
                include_content |-> includeContent]
    /\ UNCHANGED <<tables, meta, histTable, history, nextId, clock, files, conns>>

-----------------------------------------------------------------------------
(* file_browser.py: get_file_info *)

\* f.read(1000)
PreviewChars == 1000

\* the size below which a text file is previewed: 1024 * 1024
PreviewLimit == 1048576

\* preview.count('\n') + 1
LineCount(text) == Cardinality({i \in 1..Len(text) : text[i] = "\n"}) + 1

\* item_info.get("mime_type", "").startswith("text/") where the value under
\* the key is None
NoneStartswith == "'NoneType' object has no attribute 'startswith'"

\* get_file_info(file_path): every step works on the resolved path; the
\* access bits are left out
FileInfoOutcome(fs, given) ==
    IF ~PathExists(fs, Resolve(fs, given))
    THEN Raised("FileNotFoundError", "Path does not exist")
    ELSE LET p    == Resolve(fs, given)
             info == GetItemInfo(fs, p)
                     @@ [absolute_path |-> p,
                         parent_directory |-> SubSeq(p, 1, Len(p) - 1),
                         is_symlink |-> IsSymlink(fs, p)]
                     @@ (IF IsSymlink(fs, p) THEN [symlink_target |-> fs[p].target]
                         ELSE <<>>)
         IN  IF ~IsFile(fs, p) THEN Returned([success |-> TRUE, file_info |-> info])
             ELSE IF info.mime_type = MimeNone
             THEN Raised("AttributeError", NoneStartswith)
             ELSE IF info.mime_type.major = "text" /\ fs[p].size < PreviewLimit
             THEN Returned([success |-> TRUE,
                            file_info |->
                                info @@ [content_preview |-> Take(fs[p].text, PreviewChars),
                                         line_count |->
                                             LineCount(Take(fs[p].text, PreviewChars))]])
             ELSE Returned([success |-> TRUE, file_info |-> info])

GetFileInfo(p) ==
    /\ result' = FileInfoOutcome(files, p)
    /\ call' = [op |-> "get_file_info", path |-> p]
    /\ UNCHANGED <<tables, meta, histTable, history, nextId, clock, files, conns>>

-----------------------------------------------------------------------------
(* document_reader.py: read_document and its extractors *)

FmtAuto == <<"a","u","t","o">>

FmtPdf == <<".","p","d","f">>

FmtDocx == <<".","d","o","c","x">>

FmtDoc == <<".","d","o","c">>

FmtXlsx == <<".","x","l","s","x">>

FmtXls == <<".","x","l","s">>

FmtCsv == <<".","c","s","v">>

FmtUnknown == <<".","u","n","k","n","o","w","n">>

\* the keys of supported_formats
SupportedFormats == {FmtPdf, FmtDocx, FmtDoc, FmtXlsx, FmtXls, FmtCsv}

\* supported_formats[format]: the extractor registered for the format
ReaderOf(format) ==
    CASE format = FmtPdf -> "pdf"
      [] format \in {FmtDocx, FmtDoc} -> "docx"
      [] format \in {FmtXlsx, FmtXls} -> "excel"
      [] format = FmtCsv -> "csv"

\* len(df) above which the rows are sampled
RowLimit == 1000

\* df.head(10) of a sheet, df.head(100) of a CSV file
SheetSample == 10

CsvSample == 100

\* the data rows of a table of n rows, each row standing for its number
DataRows(n) == [i \in 1..n |-> i]

\* _read_pdf: one page of text
ReadPdf(node) == [type |-> "pdf", total_pages |-> 1, total_characters |-> node.size]

\* _read_docx
ReadDocx(node) ==
    [type |-> "docx", total_paragraphs |-> 1, total_tables |-> 0,
     total_characters |-> node.size]

\* _read_excel: the one sheet of the workbook
ReadExcel(node) ==
    LET n == node.content.rows
    IN  [type |-> "excel",
         sheets |-> <<[sheet_name |-> "Sheet1", rows |-> n,
                       data |-> IF n <= RowLimit THEN DataRows(n) ELSE <<>>,
                       sample_data |-> IF n > RowLimit
                                       THEN Take(DataRows(n), SheetSample) ELSE <<>>]>>,
         summary |-> [total_sheets |-> 1, total_rows |-> n]]

\* _read_csv
ReadCsv(node) ==
    LET n == node.content.rows
    IN  IF n <= RowLimit
        THEN [type |-> "csv", data |-> DataRows(n), summary |-> [rows |-> n]]
        ELSE [type |-> "csv", data |-> <<>>,
              sample_data |-> Take(DataRows(n), CsvSample),
              summary |-> [rows |-> n,
                           note |-> "Large file - showing first 100 rows only"]]

\* reader_func(file_path): the extractor raises on a file that is not of its
\* type
Extract(reader, node) ==
    IF node.content.type # reader
    THEN Raised("ValueError", "Unable to read the file")
    ELSE Returned(CASE reader = "pdf" -> ReadPdf(node)
                    [] reader = "docx" -> ReadDocx(node)
                    [] reader = "excel" -> ReadExcel(node)
                    [] reader = "csv" -> ReadCsv(node))

\* format = file_path.suffix.lower() for "auto", else the format as given
ResolveFormat(p, format) ==
    IF format = FmtAuto THEN Lower(Suffix(PathName(p))) ELSE format

Metadata(fs, p, format) ==
    [file_path |-> p, file_name |-> PathName(p), file_size |-> fs[p].size,
     format |-> format]

\* the try block without its except clause: the extractor's exception leaves
\* read_document
EnvelopeRaises(metadata, extracted) ==
    IF extracted.raised THEN extracted
    ELSE Returned([success |-> TRUE, metadata |-> metadata,
                   content |-> extracted.value])

\* the try block of read_document: an extractor's exception becomes the
\* failure envelope
Envelope(metadata, extracted) ==
    IF extracted.raised
    THEN Returned([success |-> FALSE, metadata |-> metadata,
                   error |-> extracted.error.msg])
    ELSE Returned([success |-> TRUE, metadata |-> metadata,
                   content |-> extracted.value])

\* read_document checking the format before the path
ReadOutcomeFormatFirst(fs, p, format) ==
    IF format # FmtAuto /\ format \notin SupportedFormats
    THEN Raised("ValueError", "Unsupported format")
    ELSE IF ~PathExists(fs, p) THEN Raised("FileNotFoundError", "File not found")
    ELSE IF ~IsFile(fs, p) THEN Raised("ValueError", "Path is not a file")
    ELSE IF ResolveFormat(p, format) \notin SupportedFormats
    THEN Raised("ValueError", "Unsupported format")
    ELSE LET fmt == ResolveFormat(p, format)
         IN  Envelope(Metadata(fs, p, fmt), Extract(ReaderOf(fmt), fs[p]))

\* read_document(file_path, format)
ReadOutcome(fs, p, format) ==
    IF ~PathExists(fs, p) THEN Raised("FileNotFoundError", "File not found")
    ELSE IF ~IsFile(fs, p) THEN Raised("ValueError", "Path is not a file")
    ELSE IF ResolveFormat(p, format) \notin SupportedFormats
    THEN Raised("ValueError", "Unsupported format")
    ELSE LET fmt == ResolveFormat(p, format)
         IN  Envelope(Metadata(fs, p, fmt), Extract(ReaderOf(fmt), fs[p]))

ReadDocument(p, format) ==
    /\ result' = ReadOutcome(files, p, format)
    /\ call' = [op |-> "read_document", path |-> p, format |-> format]
    /\ UNCHANGED <<tables, meta, histTable, history, nextId, clock, files, conns>>

-----------------------------------------------------------------------------
(* main.py: the tools.  Every tool runs its adapter call inside
   try/except Exception and returns a mapping. *)

\* the formats the read_document tool documents, and the ones the dedicated
\* tools pass
BarePdf == <<"p","d","f">>

BareDocx == <<"d","o","c","x">>

BareDoc == <<"d","o","c">>

BareXlsx == <<"x","l","s","x">>

BareXls == <<"x","l","s">>

BareCsv == <<"c","s","v">>

DocumentedFormats == {BarePdf, BareDocx, BareDoc, BareXlsx, BareXls, BareCsv, FmtAuto}

\* the handler without its except clause: the adapter's exception reaches
\* the caller
Propagated(outcome, context) == outcome

\* except Exception as e: return {"error": str(e), ...context}
Caught(outcome, context) ==
    IF outcome.raised THEN Returned([error |-> outcome.error.msg] @@ context)
    ELSE outcome

\* content.get("total_characters", 0)
CharacterCount(content) ==
    IF "total_characters" \in DOMAIN content THEN content.total_characters ELSE 0

\* read_document(file_path, format): a success gets a summary
ToolReadOutcome(fs, p, format) ==
    LET o == ReadOutcome(fs, p, format)
    IN  IF ~o.raised /\ o.value.success
        THEN Returned(o.value
                      @@ [summary |-> [file_type |-> o.value.content.type,
                                       readable_content |-> TRUE,
                                       character_count |->
                                           CharacterCount(o.value.content)]])
        ELSE Caught(o, [file_path |-> p, success |-> FALSE])

ToolReadDocument(p, format) ==
    /\ result' = ToolReadOutcome(files, p, format)
    /\ call' = [op |-> "tool", tool |-> "read_document", path |-> p, format |-> format]
    /\ UNCHANGED <<tables, meta, histTable, history, nextId, clock, files, conns>>

\* read_pdf(file_path): read_document(file_path, "pdf"), a success gets the
\* pages as one text
ToolPdfOutcome(fs, p) ==
    LET o == ReadOutcome(fs, p, BarePdf)
    IN  IF ~o.raised /\ o.value.success
        THEN Returned(o.value @@ [formatted_text |-> o.value.content.total_pages])
        ELSE Caught(o, [file_path |-> p, success |-> FALSE])

ToolReadPdf(p) ==
    /\ result' = ToolPdfOutcome(files, p)
    /\ call' = [op |-> "tool", tool |-> "read_pdf", path |-> p]
    /\ UNCHANGED <<tables, meta, histTable, history, nextId, clock, files, conns>>

\* read_word_document(file_path): read_document(file_path, "docx")
ToolWordOutcome(fs, p) ==
    LET o == ReadOutcome(fs, p, BareDocx)
    IN  IF ~o.raised /\ o.value.success
        THEN Returned(o.value @@ [formatted_content |-> o.value.content.total_paragraphs])
        ELSE Caught(o, [file_path |-> p, success |-> FALSE])

ToolReadWordDocument(p) ==
    /\ result' = ToolWordOutcome(files, p)
    /\ call' = [op |-> "tool", tool |-> "read_word_document", path |-> p]
    /\ UNCHANGED <<tables, meta, histTable, history, nextId, clock, files, conns>>

\* sheet_name not given
NoSheet == ""

SheetNames == {NoSheet, "Sheet1", "Other"}

\* read_excel_file(file_path, sheet_name): read_document(file_path, "xlsx"),
\* then the sheets filtered by name
ToolExcelOutcome(fs, p, sheetName) ==
    LET o == ReadOutcome(fs, p, BareXlsx)
    IN  IF ~o.raised /\ o.value.success /\ sheetName # NoSheet
        THEN LET sheets   == o.value.content.sheets
                 filtered == SelectSeq(sheets, LAMBDA s : s.sheet_name = sheetName)
             IN  IF filtered # <<>>
                 THEN Returned([o.value EXCEPT !.content.sheets = filtered])
                 ELSE Returned([error |-> "Sheet not found",
                                available_sheets |->
                                    [i \in 1..Len(sheets) |-> sheets[i].sheet_name]])
        ELSE Caught(o, [file_path |-> p, success |-> FALSE])

ToolReadExcelFile(p, sheetName) ==
    /\ result' = ToolExcelOutcome(files, p, sheetName)
    /\ call' = [op |-> "tool", tool |-> "read_excel_file", path |-> p,
                sheet_name |-> sheetName]
    /\ UNCHANGED <<tables, meta, histTable, history, nextId, clock, files, conns>>

\* the statements passed to the execute_sql tool
ToolStatements == {CreateDash, InvalidSql}

\* execute_sql(query)
ToolExecuteSql(q) ==
    /\ histTable => nextId <= MaxLogged
    /\ LET o == ExecuteOutcome(q, tables, histTable, history, nextId, clock)
       IN  /\ tables' = o.tables
           /\ histTable' = o.histTable
           /\ history' = o.history
           /\ nextId' = o.nextId
           /\ result' = Caught(o.result, [query |-> q])
    /\ conns' = ExecuteConnections(q, tables, histTable, history)
    /\ call' = [op |-> "tool", tool |-> "execute_sql", query |-> q]
    /\ UNCHANGED <<meta, clock, files>>

\* list_tables()
ToolListTables ==
    /\ result' = Caught(ListOutcome(tables, histTable, meta), <<>>)
    /\ conns' = GetConnection(<<>>, ListOutcome(tables, histTable, meta).raised)
    /\ call' = [op |-> "tool", tool |-> "list_tables"]
    /\ UNCHANGED <<tables, meta, histTable, history, nextId, clock, files>>

\* describe_table(table_name)
ToolDescribeTable(name) ==
    /\ result' = Caught(DescribeOutcome(name, tables, histTable, history, meta),
                        [table_name |-> name])
    /\ conns' = GetConnection(<<>>,
                               DescribeOutcome(name, tables, histTable, history, meta).raised)
    /\ call' = [op |-> "tool", tool |-> "describe_table", name |-> name]
    /\ UNCHANGED <<tables, meta, histTable, history, nextId, clock, files>>

\* browse_directory(path, include_hidden, max_depth)
ToolBrowseDirectory(p, includeHidden, maxDepth) ==
    /\ result' = Caught(BrowseOutcome(files, p, includeHidden, maxDepth), [path |-> p])
    /\ call' = [op |-> "tool", tool |-> "browse_directory", path |-> p,
                include_hidden |-> includeHidden, max_depth |-> maxDepth]
    /\ UNCHANGED <<tables, meta, histTable, history, nextId, clock, files, conns>>

\* get_file_info(file_path)
ToolGetFileInfo(p) ==
    /\ result' = Caught(FileInfoOutcome(files, p), [file_path |-> p])
    /\ call' = [op |-> "tool", tool |-> "get_file_info", path |-> p]
    /\ UNCHANGED <<tables, meta, histTable, history, nextId, clock, files, conns>>

\* search_files(directory, pattern)
ToolSearchFiles(p, pattern) ==
    /\ result' = Caught(SearchOutcome(files, p, pattern),
                        [directory |-> p, pattern |-> pattern])
    /\ call' = [op |-> "tool", tool |-> "search_files", directory |-> p,
                pattern |-> pattern]
    /\ UNCHANGED <<tables, meta, histTable, history, nextId, clock, files, conns>>

-----------------------------------------------------------------------------
(* The adapter as a state machine *)

\* a second passes between two calls
Tick ==
    /\ clock < MaxClock
    /\ clock' = clock + 1
    /\ UNCHANGED <<tables, meta, histTable, history, nextId, files, conns, call, result>>

\* after DatabaseConnector(path) on a new file
InitDatabase ==
    /\ tables = <<>>
    /\ meta = <<>>
    /\ histTable = TRUE
    /\ history = <<>>
    /\ nextId = 1
    /\ clock = 0
    /\ conns = GetConnection(<<>>, FALSE)
    /\ call = [op |-> "init"]
    /\ result = Returned([success |-> TRUE])

\* the database exercised next to an empty directory
Init == InitDatabase /\ files = RootOnly

\* the tables exercised: creation, listing, description, and the
\* statements that read, fill, drop and create them
Next ==
    \/ \E q \in TableStatements : ExecuteQuery(q)
    \/ \E c \in CreateCalls : CreateTableFromData(c.name, c.data, c.description)
    \/ ListTables
    \/ \E name \in DescribeNames : DescribeTable(name)

Spec == Init /\ [][Next]_vars

\* the history exercised: statements of every outcome on one table, the
\* history read back, and time passing between the calls
NextHistory ==
    \/ \E q \in HistoryStatements : ExecuteQuery(q)
    \/ CreateTableFromData(NameT, RowsA(1), NoDescription)
    \/ \E limit \in 0..MaxLimit : GetQueryHistory(limit)
    \/ Tick

SpecHistory == Init /\ [][NextHistory]_vars

-----------------------------------------------------------------------------
(* The file adapters and the tools as state machines *)

\* largest max_depth passed to browse_directory
MaxDepth == 3

\* the data rows of the tabular documents: none, one, and the two counts
\* around the limit
RowCounts == {0, 1, RowLimit, RowLimit + 1}

FileSystems == {Tree(n) : n \in RowCounts}

\* the paths passed to the calls: every path of the tree and an absent one
FilePaths == DOMAIN Tree(0) \cup {<<NameAbsent>>}

\* the formats passed to the adapter's read_document
ReadFormats == {FmtAuto, FmtPdf, FmtDocx, FmtXlsx, FmtCsv, FmtUnknown}

InitFiles == InitDatabase /\ files \in FileSystems

NextFiles ==
    \/ \E p \in FilePaths, h \in BOOLEAN, d \in 0..MaxDepth : BrowseDirectory(p, h, d)
    \/ \E p \in FilePaths, pat \in Patterns : SearchFiles(p, pat)
    \/ \E p \in FilePaths : GetFileInfo(p)
    \/ \E p \in FilePaths, f \in ReadFormats : ReadDocument(p, f)

SpecFiles == InitFiles /\ [][NextFiles]_vars

\* the tools called on a tree whose tabular documents hold one row
InitTools == InitDatabase /\ files = Tree(1)

\* the paths passed to the tools: the directories, a file of every type, the
\* broken link and an absent path
ToolPaths ==
    {<<>>, <<NameSub>>, <<NameATxt>>, <<NameNotes>>, <<NameLink>>, <<NameCsv>>,
     <<NameXlsx>>, <<NamePdf>>, <<NameDocx>>, <<NameAbsent>>}

NextTools ==
    \/ \E p \in ToolPaths, f \in DocumentedFormats \cup {FmtPdf} : ToolReadDocument(p, f)
    \/ \E p \in ToolPaths : ToolReadPdf(p)
    \/ \E p \in ToolPaths : ToolReadWordDocument(p)
    \/ \E p \in ToolPaths, s \in SheetNames : ToolReadExcelFile(p, s)
    \/ \E q \in ToolStatements : ToolExecuteSql(q)
    \/ ToolListTables
    \/ \E name \in DescribeNames : ToolDescribeTable(name)
    \/ \E p \in ToolPaths, h \in BOOLEAN, d \in {1, MaxDepth} : ToolBrowseDirectory(p, h, d)
    \/ \E p \in ToolPaths : ToolGetFileInfo(p)
    \/ \E p \in ToolPaths, pat \in {PatTxt, PatAll} : ToolSearchFiles(p, pat)

SpecTools == InitTools /\ [][NextTools]_vars

-----------------------------------------------------------------------------
(* Properties of execute_query and of the query history *)

\* the row count a result of execute_query reports
ReportedRows(value) ==
    IF "rows_returned" \in DOMAIN value THEN value.rows_returned ELSE value.rows_affected

IsPrefix(s, t) == Len(s) <= Len(t) /\ SubSeq(t, 1, Len(s)) = s

\* C1: a result of execute_query carries rows_returned and not rows_affected
\* when the first token of the trimmed statement, upper-cased, is SELECT, and
\* rows_affected and not rows_returned for every other first token.
C1_RowsKeyByLeadingToken ==
    (call.op = "execute_query" /\ ~result.raised) =>
        IF Upper(call.query.verb) = KwSelect
        THEN /\ "rows_returned" \in DOMAIN result.value
             /\ "rows_affected" \notin DOMAIN result.value
        ELSE /\ "rows_affected" \in DOMAIN result.value
             /\ "rows_returned" \notin DOMAIN result.value

\* "  select * from t" has returned the one row of t
C1_Witness ==
    /\ call.op = "execute_query"
    /\ call.query = SelectLowerT
    /\ ~result.raised
    /\ result.value.rows_returned = 1

\* C2: while the history table exists, the call of execute_query just made
\* has written the newest history row: success with the reported row count
\* when it returned, failure with 0 rows and the raised error's message when
\* it raised.
C2_EveryCallLogged ==
    (call.op = "execute_query" /\ histTable) =>
        /\ history # <<>>
        /\ LET e == history[Len(history)]
           IN  /\ e.query = call.query
               /\ e.id = nextId - 1
               /\ IF result.raised
                  THEN /\ ~e.success
                       /\ e.rows_affected = 0
                       /\ e.error_message = result.error.msg
                  ELSE /\ e.success
                       /\ e.error_message = NoError
                       /\ e.rows_affected = ReportedRows(result.value)

\* C3: no step of the adapter mutates or deletes a history row: the history
\* before a step is a prefix of the history after it.
C3_AppendOnly == [][IsPrefix(history, history')]_vars

\* C3, amended: the same, except for the steps that execute a statement
\* naming the history table itself.
C3_AppendOnlyUnlessNamed ==
    [][(\E q \in HistoryStatements : q.target = HistoryName /\ ExecuteQuery(q))
       \/ IsPrefix(history, history')]_vars

\* two calls have each added a row
C3_Witness == histTable /\ Len(history) = 2 /\ history[1].id = 1 /\ history[2].id = 2

\* C4: what execute_query returns or raises for a statement that does not
\* name the history table is what it returns or raises on the same tables
\* with the history table in place and empty, whether or not the history row
\* could be written.
C4_LogFailureKeepsOutcome ==
    [][\A q \in HistoryStatements :
          (ExecuteQuery(q) /\ q.target # HistoryName)
              => result' = ExecuteOutcome(q, tables, TRUE, <<>>, 1, clock).result]_vars

\* with the history table dropped, a statement has returned and another has
\* raised the engine's error
C4_Witness ==
    /\ ~histTable
    /\ call.op = "execute_query"
    /\ call.query = InvalidSql
    /\ result = Raised("OperationalError", "syntax error")

-----------------------------------------------------------------------------
(* Properties of the table operations *)

\* letters, digits and underscores only
OnlyNameChars(name) == \A i \in 1..Len(name) : name[i] \in Letters \cup Digits \cup {"_"}

\* what execute_query("SELECT * FROM name") gives on the given database
SelectAllFrom(name, tbls, hist, hlog, id, at) ==
    ExecuteOutcome(Stmt(FALSE, KwSelect, name, FALSE), tbls, hist, hlog, id, at).result

\* C5: create_table_from_data with a name that passes the validation, not yet
\* the name of a table, and with at least one row reports rows_inserted =
\* len(rows), and SELECT * FROM that table then returns len(rows) rows.
C5_RoundTrip ==
    [][\A c \in CreateCalls :
          (/\ CreateTableFromData(c.name, c.data, c.description)
           /\ ValidTableName(c.name)
           /\ ~TableExists(tables, histTable, c.name)
           /\ c.data # <<>>) =>
              LET sel == SelectAllFrom(c.name, tables', histTable', history', nextId', clock')
              IN  /\ ~result'.raised
                  /\ result'.value.rows_inserted = Len(c.data)
                  /\ ~sel.raised
                  /\ sel.value.rows_returned = Len(c.data)]_vars

\* C6: create_table_from_data raises ValueError and changes nothing when the
\* rows are empty or the name has a character other than a letter, a digit
\* or an underscore, and never raises that validation error for a name made
\* of letters, digits and underscores with rows given.
C6_Validation ==
    [][\A c \in CreateCalls :
          CreateTableFromData(c.name, c.data, c.description) =>
              IF c.data = <<>> \/ ~OnlyNameChars(c.name)
              THEN /\ result'.raised
                   /\ result'.error.type = "ValueError"
                   /\ UNCHANGED <<tables, meta, histTable, history>>
              ELSE ~(result'.raised /\ result'.error.type = "ValueError")]_vars

\* C7: list_tables lists exactly the tables whose name begins neither with
\* sqlite_ nor with _mcp_; total_tables counts the listed tables and
\* total_tables + system_tables is the number of tables in the database.
C7_ListsUserTables ==
    (call.op = "list_tables" /\ ~result.raised) =>
        /\ {ti.name : ti \in result.value.tables}
              = {n \in AllTables(tables, histTable) :
                    ~StartsWith(n, SqlitePrefix) /\ ~StartsWith(n, McpPrefix)}
        /\ result.value.total_tables = Cardinality(result.value.tables)
        /\ result.value.total_tables + result.value.system_tables
              = Cardinality(AllTables(tables, histTable))

\* C8: a call of list_tables changes neither the user tables, the metadata
\* nor the history, and what it returns is what a call in the state it
\* leaves returns.
C8_ListReadOnlyIdempotent ==
    [][ListTables =>
          /\ UNCHANGED <<tables, meta, histTable, history, nextId>>
          /\ result' = ListOutcome(tables', histTable', meta')]_vars

\* list_tables has listed the table t
C8_Witness ==
    /\ call.op = "list_tables"
    /\ ~result.raised
    /\ result.value.total_tables = 1
    /\ \E ti \in result.value.tables : ti.name = NameT

\* C9: describe_table raises ValueError for a name that is no table, and for
\* every table returns at most 5 sample rows and the full row count.
C9_Describe ==
    call.op = "describe_table" =>
        IF ~TableExists(tables, histTable, call.name)
        THEN result.raised /\ result.error.type = "ValueError"
        ELSE /\ ~result.raised
             /\ Len(result.value.table_info.sample_data.rows) <= SampleLimit
             /\ result.value.table_info.row_count = Len(RowsOf(tables, history, call.name))

Reverse(s) == [i \in 1..Len(s) |-> s[Len(s) + 1 - i]]

\* C10: get_query_history(limit) returns at most limit entries, the most
\* recently executed ones, the later executed before the earlier.
C10_MostRecentFirst ==
    (call.op = "get_query_history" /\ ~result.raised) =>
        /\ Len(result.value.history) <= call.limit
        /\ result.value.history
              = [i \in 1..Len(Take(history, call.limit)) |-> HistoryItem(Reverse(history)[i])]

-----------------------------------------------------------------------------
(* Properties of the file browser *)

\* on the levels above maxDepth - 1 every directory item carries children,
\* on the other levels no item does, and only directory items carry them
RECURSIVE ChildrenWithin(_, _, _)
ChildrenWithin(items, level, maxDepth) ==
    \A i \in 1..Len(items) :
        IF "children" \in DOMAIN items[i]
        THEN /\ level < maxDepth - 1
             /\ items[i].type = "directory"
             /\ items[i].child_count = Len(items[i].children)
             /\ ChildrenWithin(items[i].children, level + 1, maxDepth)
        ELSE items[i].type = "directory" => level >= maxDepth - 1

\* C11: in a result of browse_directory a directory item at recursion depth d
\* carries children exactly when d < max_depth - 1: none with max_depth = 1,
\* one level with max_depth = 2, never more than max_depth - 1 levels.
C11_DepthBound ==
    (call.op = "browse_directory" /\ ~result.raised) =>
        ChildrenWithin(result.value.items, 0, call.max_depth)

\* max_depth = 2 on the root: sub carries its children, and the directory d
\* among them carries none
C11_Witness ==
    /\ call.op = "browse_directory"
    /\ call.path = <<>>
    /\ call.max_depth = 2
    /\ ~result.raised
    /\ \E i \in 1..Len(result.value.items) :
           /\ result.value.items[i].name = NameSub
           /\ "children" \in DOMAIN result.value.items[i]
           /\ \E j \in 1..Len(result.value.items[i].children) :
                  /\ result.value.items[i].children[j].name = NameDeep
                  /\ result.value.items[i].children[j].type = "directory"
                  /\ "children" \notin DOMAIN result.value.items[i].children[j]

\* the sum of the sizes of the items of type file
RECURSIVE SizeOfType(_, _)
SizeOfType(items, type) ==
    IF items = <<>> THEN 0
    ELSE (IF Head(items).type = type THEN Head(items).size ELSE 0)
         + SizeOfType(Tail(items), type)

\* C12: the summary of browse_directory is taken over the top-level items
\* only: total_items is their number, directories and files are the numbers
\* of top-level directories and of top-level files, and total_size is the
\* sum of the sizes of the top-level items that are not directories.
C12_SummaryTopLevel ==
    (call.op = "browse_directory" /\ ~result.raised) =>
        LET items == result.value.items
            sum   == result.value.summary
        IN  /\ sum.total_items = Len(items)
            /\ sum.directories = CountType(items, "directory")
            /\ sum.files = CountType(items, "file")
            /\ sum.total_size = SizeOfType(items, "file")

\* the regular files at any depth below the directory
FilesBelow(fs, dir) ==
    {q \in DOMAIN fs :
        Len(q) > Len(dir) /\ SubSeq(q, 1, Len(dir)) = dir /\ fs[q].kind = "file"}

EndsWith(s, t) == Len(s) >= Len(t) /\ SubSeq(s, Len(s) - Len(t) + 1, Len(s)) = t

\* the names a glob of the model matches, stated without the matcher
GlobMatches(name, pat) ==
    CASE pat = PatTxt -> EndsWith(name, <<".","t","x","t">>)
      [] pat = PatAll -> TRUE
      [] pat = PatOneChar -> Len(name) = 1
      [] pat = PatColon -> EndsWith(name, <<":","b">>)

\* C13: search_files without content search returns exactly the regular
\* files at any depth below the directory whose name matches the glob, each
\* once and each with match_type "filename", and total_matches is their
\* number.
C13_SearchByName ==
    (call.op = "search_files" /\ ~result.raised) =>
        LET matches  == result.value.matches
            expected == {q \in FilesBelow(files, call.directory) :
                            GlobMatches(PathName(q), call.pattern)}
        IN  /\ {matches[i].path : i \in 1..Len(matches)} = expected
            /\ \A i, j \in 1..Len(matches) :
                   matches[i].path = matches[j].path => i = j
            /\ \A i \in 1..Len(matches) :
                   /\ matches[i].match_type = "filename"
                   /\ matches[i].name = PathName(matches[i].path)
            /\ result.value.total_matches = Len(matches)
            /\ result.value.total_matches = Cardinality(expected)

\* *.txt below sub, which holds b.txt and d/c.txt: two matches
C13_Witness ==
    /\ call.op = "search_files"
    /\ call.directory = <<NameSub>>
    /\ call.pattern = PatTxt
    /\ ~result.raised
    /\ result.value.total_matches = 2
    /\ {result.value.matches[i].path : i \in 1..Len(result.value.matches)}
           = {<<NameSub, NameBTxt>>, <<NameSub, NameDeep, NameCTxt>>}

\* C20: get_file_info raises FileNotFoundError for a path that is absent, and
\* for every path that exists, directory or file of any name, returns
\* success with the item's name, type and size.
C20_FileInfo ==
    call.op = "get_file_info" =>
        IF call.path \notin DOMAIN files \/ files[call.path].kind = "broken"
        THEN result.raised /\ result.error.type = "FileNotFoundError"
        ELSE /\ ~result.raised
             /\ result.value.success
             /\ result.value.file_info.name = PathName(call.path)
             /\ result.value.file_info.type
                    = (IF files[call.path].kind = "dir" THEN "directory" ELSE "file")
             /\ result.value.file_info.size = files[call.path].size

-----------------------------------------------------------------------------
(* Properties of the document reader *)

\* the format read_document looks up: the lower-cased suffix for "auto"
Resolved(path, format) ==
    IF format = FmtAuto THEN Lower(Suffix(PathName(path))) ELSE format

\* the path names an entry that is there (a link counts by its target)
OnDisk(path) == path \in DOMAIN files /\ files[path].kind \in {"dir", "file"}

C15_UnsupportedDeclared ==
    (call.op = "read_document" /\ call.format \notin SupportedFormats \cup {FmtAuto}) =>
        /\ result.raised
        /\ result.error = [type |-> "ValueError", msg |-> "Unsupported format"]

\* C16: for a regular file and a format with an extractor read_document does
\* not raise: it returns success with metadata and content, or failure with
\* metadata and error; the metadata names the path, the name, the size and
\* the format.
C16_EnvelopeAfterPrechecks ==
    (/\ call.op = "read_document"
     /\ OnDisk(call.path)
     /\ files[call.path].kind = "file"
     /\ Resolved(call.path, call.format) \in SupportedFormats) =>
        /\ ~result.raised
        /\ IF result.value.success
           THEN DOMAIN result.value = {"success", "metadata", "content"}
           ELSE DOMAIN result.value = {"success", "metadata", "error"}
        /\ result.value.metadata =
               [file_path |-> call.path, file_name |-> PathName(call.path),
                file_size |-> files[call.path].size,
                format |-> Resolved(call.path, call.format)]

\* the CSV file read as PDF: the extractor fails and the failure comes back
\* with the metadata
C16_Witness ==
    /\ call.op = "read_document"
    /\ call.path = <<NameCsv>>
    /\ call.format = FmtPdf
    /\ ~result.raised
    /\ ~result.value.success
    /\ result.value.metadata.format = FmtPdf

\* the large-data gate on one table of n rows: data, the rows reported, and
\* for more than 1000 rows the sample of the first 10 rows
GateHolds(n, data, rows, holder) ==
    /\ rows = n
    /\ IF n <= RowLimit
       THEN data = DataRows(n)
       ELSE /\ data = <<>>
            /\ "sample_data" \in DOMAIN holder
            /\ holder.sample_data = SubSeq(DataRows(n), 1, 10)

\* C19: a CSV file and a sheet of n data rows come back with the full data
\* and rows = n for n <= 1000, and for n >= 1001 without the data, with a
\* sample_data of the first 10 rows and with a note that the data was cut.
C19_RowGate ==
    (/\ call.op = "read_document"
     /\ ~result.raised
     /\ result.value.success
     /\ result.value.content.type \in {"csv", "excel"}) =>
        LET n       == files[call.path].content.rows
            content == result.value.content
        IN  IF content.type = "csv"
            THEN /\ GateHolds(n, content.data, content.summary.rows, content)
                 /\ n > RowLimit => "note" \in DOMAIN content.summary
            ELSE \A i \in 1..Len(content.sheets) :
                     /\ GateHolds(n, content.sheets[i].data, content.sheets[i].rows,
                                  content.sheets[i])
                     /\ n > RowLimit =>
                            \/ "note" \in DOMAIN content.sheets[i]
                            \/ "note" \in DOMAIN content.summary

-----------------------------------------------------------------------------
(* Properties of the tools *)

\* the type of document a documented format stands for
DocumentType(path, format) ==
    CASE format = BarePdf -> "pdf"
      [] format \in {BareDocx, BareDoc} -> "docx"
      [] format \in {BareXlsx, BareXls} -> "excel"
      [] format = BareCsv -> "csv"
      [] format = FmtAuto -> files[path].content.type

\* the tool has returned the extractor's content
ContentReturned ==
    /\ ~result.raised
    /\ "error" \notin DOMAIN result.value
    /\ result.value.success
    /\ "content" \in DOMAIN result.value

\* C17: the read_document tool called with a format it documents, and the
\* tools read_pdf, read_word_document and read_excel_file, on a regular file
\* of the matching type return the extractor's content.
C17_DocumentedFormatsRead ==
    (/\ call.op = "tool"
     /\ call.tool \in {"read_document", "read_pdf", "read_word_document", "read_excel_file"}
     /\ IsFile(files, call.path)) =>
        CASE call.tool = "read_document" ->
                 (/\ call.format \in DocumentedFormats
                  /\ files[call.path].content.type = DocumentType(call.path, call.format)
                  /\ files[call.path].content.type \in {"pdf", "docx", "excel", "csv"})
                     => ContentReturned
          [] call.tool = "read_pdf" ->
                 files[call.path].content.type = "pdf" => ContentReturned
          [] call.tool = "read_word_document" ->
                 files[call.path].content.type = "docx" => ContentReturned
          [] call.tool = "read_excel_file" ->
                 (files[call.path].content.type = "excel" /\ call.sheet_name = NoSheet)
                     => ContentReturned

\* C18: no tool raises to its caller: every tool returns a mapping that has
\* success = true or carries an "error" key.
C18_ToolsNeverRaise ==
    call.op = "tool" =>
        /\ ~result.raised
        /\ \/ "error" \in DOMAIN result.value
           \/ "success" \in DOMAIN result.value /\ result.value.success

\* the list_tables tool on a database holding the table "t-": the adapter's
\* OperationalError has come back as a mapping
C18_Witness ==
    /\ call.op = "tool"
    /\ call.tool = "list_tables"
    /\ NameDash \in DOMAIN tables
    /\ ~result.raised
    /\ result.value = [error |-> "syntax error"]

-----------------------------------------------------------------------------
(* The connections of the five operations *)

\* the five operations on the table t: statements of every outcome, listing,
\* description and the history read back
NextConnections ==
    \/ \E q \in HistoryStatements : ExecuteQuery(q)
    \/ \E d \in {RowsA(0), RowsA(1)} : CreateTableFromData(NameT, d, NoDescription)
    \/ ListTables
    \/ \E name \in {NameT, NameMissing} : DescribeTable(name)
    \/ GetQueryHistory(MaxLimit)

SpecConnections == Init /\ [][NextConnections]_vars

\* the connections open after the first n events
OpenAfter(trace, n) ==
    Cardinality({i \in 1..n : trace[i] = "connect"})
    - Cardinality({i \in 1..n : trace[i] = "close"})

\* C21: every connection a tabular operation opens (that of _log_query
\* included) is closed before the operation returns or raises, on every exit
\* path: after any sequence of operations no connection remains open.
C21_ConnectionsClosed == OpenAfter(conns, Len(conns)) = 0

\* a statement the engine rejects: its connection is rolled back and closed,
\* the logging connection is opened after it, and the error is raised
C21_Witness ==
    /\ call.op = "execute_query"
    /\ call.query = InvalidSql
    /\ result.raised
    /\ conns = <<"connect", "rollback", "close", "connect", "close">>

\* C26: at most one connection is open at any moment of an operation: a
\* second connection is never opened while an earlier one is still open.
C26_AtMostOneOpen == \A n \in 0..Len(conns) : OpenAfter(conns, n) <= 1

-----------------------------------------------------------------------------
(* Column inference on rows of every kind of value and key *)

\* largest number of rows in a sample built from the rows below
MaxSample == 2

\* None, True, 1, 1.5, "x" and [..]
RichValues == {NoneV, BoolV(TRUE), IntV(1), RealV(3), StrV(<<"x">>), ListV}

OneKey(key, v) == [k \in {key} |-> v]

\* {"a": v} for every value, {}, and rows whose keys need cleaning, share a
\* clean name, or are empty
InferRows ==
    {OneKey(KeyA, v) : v \in RichValues}
    \cup {<<>>,
          OneKey(KeyDash, IntV(1)),
          OneKey(KeyDash, IntV(1)) @@ OneKey(KeyUnder, StrV(<<"x">>)),
          OneKey(KeyDigit, IntV(1)),
          OneKey(KeyEmpty, IntV(1)),
          OneKey(KeyA, IntV(1)) @@ OneKey(KeyB, StrV(<<"x">>))}

\* the row sets: up to MaxSample rows, and ten rows {"a": 1} followed by
\* one row more, which the inference does not see
InferData ==
    UNION {[1..n -> InferRows] : n \in 1..MaxSample}
    \cup {RowsA(InferSample) \o <<r>> : r \in InferRows}

\* one call on a new adapter: the function reads nothing but its argument
NextInfer == call.op = "init" /\ \E data \in InferData : InferColumns(data)

SpecInfer == Init /\ [][NextInfer]_vars

\* the non-null values a key has in the rows of a sample
NonNull(sample, key) ==
    {RowGet(sample[i], key) : i \in 1..Len(sample)} \ {NoneV}

\* C22: the type of a column, over its non-null sampled values: none ->
\* TEXT; all boolean -> BOOLEAN; otherwise all integer (booleans count) ->
\* INTEGER; otherwise all integer or real -> REAL; otherwise TEXT.  An
\* all-boolean column is never INTEGER.
C22_TypeClassification ==
    (call.op = "_infer_columns" /\ ~result.raised) =>
        \A n \in DOMAIN result.value :
            \E k \in AllColumns(Take(call.data, InferSample)) :
                LET vals    == NonNull(Take(call.data, InferSample), k)
                    allBool == \A v \in vals : v.ty = "bool"
                    allInt  == \A v \in vals : v.ty \in {"bool", "int"}
                    allNum  == \A v \in vals : v.ty \in {"bool", "int", "float"}
                    type    == result.value[n]
                IN  /\ CleanName(k) = n
                    /\ vals = {} => type = "TEXT"
                    /\ (vals # {} /\ allBool) => type = "BOOLEAN"
                    /\ (~allBool /\ allInt) => type = "INTEGER"
                    /\ (~allInt /\ allNum) => type = "REAL"
                    /\ ~allNum => type = "TEXT"

\* the rows {"a": True}, {"a": True} give BOOLEAN
C22_Witness ==
    /\ call.op = "_infer_columns"
    /\ call.data = <<OneKey(KeyA, BoolV(TRUE)), OneKey(KeyA, BoolV(TRUE))>>
    /\ result = Returned(OneKey(KeyA, "BOOLEAN"))

\* C23: on every non-empty sequence of rows with string keys _infer_columns
\* returns, without error, a mapping that holds the clean name of every key
\* of the sampled rows, with values among INTEGER, REAL, BOOLEAN and TEXT.
C23_InferTotal ==
    (call.op = "_infer_columns" /\ call.data # <<>>) =>
        /\ ~result.raised
        /\ \A k \in AllColumns(Take(call.data, InferSample)) :
               CleanName(k) \in DOMAIN result.value
        /\ \A n \in DOMAIN result.value :
               result.value[n] \in {"INTEGER", "REAL", "BOOLEAN", "TEXT"}

-----------------------------------------------------------------------------
(* Tables created from rows of every kind, dropped and created again *)

\* the row sets passed to create_table_from_data: one row of every kind,
\* columns of mixed values, and ten rows {"a": 1} followed by a row that
\* the inference does not see
CreateData ==
    {<<r>> : r \in InferRows}
    \cup {<<OneKey(KeyA, IntV(1)), OneKey(KeyA, StrV(<<"x">>))>>,
          <<OneKey(KeyA, IntV(1)), OneKey(KeyA, RealV(3))>>,
          <<OneKey(KeyA, BoolV(TRUE)), OneKey(KeyA, IntV(1))>>}
    \cup {RowsA(InferSample) \o <<r>> :
              r \in {OneKey(KeyA, StrV(<<"x">>)), OneKey(KeyB, IntV(1)), OneKey(KeyA, ListV)}}

\* the table t created from every row set without a description and from
\* one row with a description, dropped, and described
NextCreate ==
    \/ \E d \in CreateData : CreateTableFromData(NameT, d, NoDescription)
    \/ CreateTableFromData(NameT, RowsA(1), "sales")
    \/ ExecuteQuery(DropT)
    \/ DescribeTable(NameT)

SpecCreate == Init /\ [][NextCreate]_vars

\* x == y in Python for the values of the model: numbers by their value
\* (True == 1 == 1.0), anything else by type and content
SameValue(x, y) ==
    IF IsNumber(x) /\ IsNumber(y)
    THEN (IF x.ty = "float" THEN x.v ELSE 2 * x.v) = (IF y.ty = "float" THEN y.v ELSE 2 * y.v)
    ELSE x.ty = y.ty /\ x.v = y.v

\* C27: after create_table_from_data, for every row and every key of the
\* first 10 rows, the value stored under the key's column equals the value
\* the row holds under the key (null when it lacks the key), also for keys
\* whose clean name differs from the key.
C27_ValueRoundTrip ==
    (call.op = "create_table_from_data" /\ ~result.raised) =>
        \A i \in 1..Len(call.data) :
            \A k \in AllColumns(Take(call.data, InferSample)) :
                SameValue(tables[call.name].rows[i][CleanName(k)], RowGet(call.data[i], k))

\* C28: the description list_tables and describe_table report is the one
\* given when the table that now exists was created: whatever came before
\* (DROP TABLE and a new creation of the name included), a table created
\* without a description reports no description.
C28_DescriptionOfCurrentTable ==
    (/\ call.op = "create_table_from_data"
     /\ ~result.raised
     /\ call.description = NoDescription) =>
        /\ "description" \notin
               DOMAIN DescribeOutcome(call.name, tables, histTable, history,
                                      meta).value.table_info
        /\ \A info \in ListOutcome(tables, histTable, meta).value.tables :
               info.name = call.name => "description" \notin DOMAIN info

\* C29: create_table_from_data is all-or-nothing: it returns success with
\* rows_inserted = len(rows) and the table holds every row, or it raises and
\* the database is as before the call (no table, no rows, no metadata row).
C29_AllOrNothing ==
    [][call'.op = "create_table_from_data" =>
          IF result'.raised
          THEN tables' = tables /\ meta' = meta
          ELSE /\ result'.value.rows_inserted = Len(call'.data)
               /\ Len(tables'[call'.name].rows) = Len(call'.data)]_vars

-----------------------------------------------------------------------------
(* execute_query and the statements the engine accepts *)

\* C30: execute_query raises only when the engine rejects the statement, and
\* then the user tables and the metadata table are as before the call; every
\* statement the engine accepts, an empty or blank one included, yields a
\* success result.
C30_RaisesOnlyOnRejection ==
    [][call'.op = "execute_query" =>
          LET r == SqlExecute(call'.query, tables, histTable, history)
          IN  /\ result'.raised => (r.err # NoError /\ tables' = tables /\ meta' = meta)
              /\ r.err = NoError => (~result'.raised /\ result'.value.success)]_vars

-----------------------------------------------------------------------------
(* Links and content search *)

NameLn == <<"l","n">>

NameMany == <<"m","a","n","y",".","t","x","t">>

NameBig == <<"b","i","g",".","t","x","t">>

\* 51 lines "b"
ManyLines == [i \in 1..(2 * (ContentMatchLimit + 1)) |-> IF i % 2 = 1 THEN "b" ELSE "\n"]

\* the tree with a link to a.txt, a file of 51 lines that all hold "b", and
\* a file of more than 10 MiB, of which only the first line is spelt out
LinkTree ==
    Tree(1)
    @@ (<<NameLn>> :> LinkNode(Tree(1), <<NameATxt>>))
    @@ (<<NameMany>> :> FileNode(Len(ManyLines), TextContent, ManyLines))
    @@ (<<NameBig>> :> FileNode(ContentSizeLimit + 2, TextContent, <<"b", "\n">>))

\* "*.txt:b", "*:B", "*:h", "*.txt:", "*:zz", "a*:y", "*.txt" and "*"
ContentPatterns ==
    {PatTxt \o <<":", "b">>, <<"*", ":", "B">>, <<"*", ":", "h">>, PatTxt \o <<":">>,
     <<"*", ":", "z", "z">>, <<"a", "*", ":", "y">>, PatTxt, PatAll}

InitLinks == InitDatabase /\ files = LinkTree

\* every path of the tree and an absent one, looked up and searched
NextLinks ==
    \/ \E p \in DOMAIN LinkTree \cup {<<NameAbsent>>} : GetFileInfo(p)
    \/ \E p \in DOMAIN LinkTree \cup {<<NameAbsent>>}, pat \in ContentPatterns,
           inc \in BOOLEAN : SearchFilesContent(p, pat, inc)

SpecLinks == InitLinks /\ [][NextLinks]_vars

\* the glob and the substring a pattern of the model stands for when it is
\* split, stated without the splitter
GlobOf(pattern) ==
    CASE pattern \in {PatTxt \o <<":", "b">>, PatTxt \o <<":">>, PatTxt} -> PatTxt
      [] pattern = <<"a", "*", ":", "y">> -> <<"a", "*">>
      [] OTHER -> PatAll

SubstringOf(pattern) ==
    CASE pattern = PatTxt \o <<":", "b">> -> <<"b">>
      [] pattern = <<"*", ":", "B">> -> <<"b">>
      [] pattern = <<"*", ":", "h">> -> <<"h">>
      [] pattern = <<"*", ":", "z", "z">> -> <<"z", "z">>
      [] pattern = <<"a", "*", ":", "y">> -> <<"y">>
      [] OTHER -> <<>>

\* a glob of the model is some text, one "*", and some text: the name fits
\* when it starts with the first and ends with the second, without overlap
NameFits(name, glob) ==
    LET star == CHOOSE i \in 1..Len(glob) : glob[i] = "*"
        pre  == SubSeq(glob, 1, star - 1)
        post == SubSeq(glob, star + 1, Len(glob))
    IN  /\ Len(name) >= Len(pre) + Len(post)
        /\ SubSeq(name, 1, Len(pre)) = pre
        /\ EndsWith(name, post)

\* the lower-cased text holds the lower-cased substring
Holds(text, sub) ==
    \E i \in 0..(Len(text) - Len(sub)) :
        \A j \in 1..Len(sub) : LowerChar(text[i + j]) = sub[j]

\* C24: the pattern is split at its first ':' only when include_content is
\* true; every match has a name matching the filename glob; match_type is
\* "content" exactly when the match carries a non-empty content_matches, of
\* at most 50 entries and never for a file over 10 MiB; a file whose name
\* matches and whose content does not is returned with match_type "filename".
C24_MatchClassification ==
    (call.op = "search_files" /\ ~result.raised) =>
        LET glob    == IF call.include_content THEN GlobOf(call.pattern) ELSE call.pattern
            matches == result.value.matches
        IN  /\ \A i \in 1..Len(matches) :
                   LET m == matches[i]
                   IN  /\ NameFits(m.name, glob)
                       /\ m.match_type \in {"filename", "content"}
                       /\ m.match_type = "content" <=> "content_matches" \in DOMAIN m
                       /\ "content_matches" \in DOMAIN m =>
                              /\ Len(m.content_matches) \in 1..ContentMatchLimit
                              /\ files[m.path].size <= ContentSizeLimit
            /\ \A q \in FilesBelow(files, call.directory) :
                   NameFits(PathName(q), glob) =>
                       \E i \in 1..Len(matches) :
                           /\ matches[i].path = q
                           /\ (~call.include_content
                               \/ ~Holds(files[q].text, SubstringOf(call.pattern)))
                                  => matches[i].match_type = "filename"

\* "*.txt:b" searched with content from the root: many.txt comes with 50
\* content matches, big.txt and a.txt as filename matches
C24_Witness ==
    /\ call.op = "search_files"
    /\ call.directory = <<>>
    /\ call.include_content
    /\ call.pattern = PatTxt \o <<":", "b">>
    /\ ~result.raised
    /\ \E i, j, k \in 1..Len(result.value.matches) :
           LET m == result.value.matches
           IN  /\ m[i].name = NameMany
               /\ m[i].match_type = "content"
               /\ Len(m[i].content_matches) = ContentMatchLimit
               /\ m[j].name = NameBig
               /\ m[j].match_type = "filename"
               /\ m[k].name = NameATxt
               /\ m[k].match_type = "filename"

\* C25: get_file_info reports the link status of the path it is given: for
\* a symbolic link to an existing target is_symlink is true and a
\* symlink_target is present; for any other path is_symlink is false and no
\* symlink_target is present.
C25_SymlinkReported ==
    (call.op = "get_file_info" /\ ~result.raised) =>
        LET info == result.value.file_info
        IN  IF "target" \in DOMAIN files[call.path]
            THEN info.is_symlink /\ "symlink_target" \in DOMAIN info
            ELSE ~info.is_symlink /\ "symlink_target" \notin DOMAIN info

====
